---------------------------- MODULE Spec2Model ----------------------------
(***************************************************************************)
(* The reactive dependency-tracking engine: Dep (observer/dep.js), the     *)
(* Observer instrumentation (observer/index.js, observer/array.js), the    *)
(* Watcher with its dependency reconciliation (observer/watcher.js), the   *)
(* computed getter and $watch (instance/state.js), nextTick                *)
(* (util/next-tick) and the scheduler.                                     *)
(*                                                                         *)
(* JavaScript runs one handler to completion.  A handler that calls user   *)
(* code (an evaluation function, a result callback) is modelled with an    *)
(* explicit call stack: `stack' holds one frame per active call, the top   *)
(* frame is the only one that can move, and the environment (application   *)
(* code, timers) acts only when the stack is empty.                        *)
(***************************************************************************)
EXTENDS Integers, Sequences, FiniteSets, TLC

VARIABLES
    heap,        \* object id -> the object: own properties, array elements, __ob__
    subs,        \* Dep.subs of every Dep, indexed by Dep id + 1
    watchers,    \* every Watcher constructed so far, indexed by Watcher id
    vmWatchers,  \* vm._watchers
    targetStack, \* dep.js targetStack; Dep.target is its last element
    shouldObserve, \* observer/index.js shouldObserve
    seenObjects, \* traverse.js seenObjects: the Dep ids a traverse has met
    queue,       \* scheduler: the pending list of Watcher ids
    has,         \* scheduler: ids marked queued
    postFlush,   \* scheduler: the post-flush callbacks registered
    waiting,     \* scheduler: a flush is scheduled
    flushing,    \* scheduler: a flush is draining
    index,       \* scheduler: position of the Watcher being run
    circular,    \* scheduler: runs per Watcher id in this flush
    callbacks,   \* next-tick: callbacks
    pending,     \* next-tick: pending
    timers,      \* next-tick: flushCallbacks tasks handed to the host's timer
    stack,       \* the call stack of the handler in progress
    ret,         \* the value the last completed call returned
    exc,         \* an exception is propagating
    ev,          \* history: what the last step did
    hist         \* history: bookkeeping of the current burst and flush

vars == <<heap, subs, watchers, vmWatchers, targetStack, shouldObserve,
          seenObjects, queue,
          has, postFlush, waiting, flushing, index, circular, callbacks, pending, timers,
          stack, ret, exc, ev, hist>>

(***************************************************************************)
(* Bounds of the model.                                                    *)
(***************************************************************************)
MaxWatchers == 2

(***************************************************************************)
(* JavaScript values: numbers, undefined, NaN and references to objects.   *)
(***************************************************************************)
Num(n) == [t |-> "num", n |-> n]
Ref(o) == [t |-> "ref", n |-> o]
Undef == [t |-> "undef", n |-> 0]
NaN == [t |-> "nan", n |-> 0]

\* isObject(v): v !== null && typeof v === 'object'
IsObject(v) == v.t = "ref"

\* v1 === v2 (NaN is not identical to itself)
StrictEq(v1, v2) == v1 = v2 /\ v1.t # "nan"

\* the truthiness a conditional expression of an evaluation function tests
Truthy(v) == v.t = "ref" \/ (v.t = "num" /\ v.n # 0)

\* remove(arr, item) of shared/util: drops the first occurrence, if any
RECURSIVE Remove(_, _)
Remove(arr, item) ==
    IF arr = <<>> THEN <<>>
    ELSE IF Head(arr) = item THEN Tail(arr)
    ELSE <<Head(arr)>> \o Remove(Tail(arr), item)

SeqSet(s) == {s[i] : i \in 1..Len(s)}

Count(s, x) == Cardinality({i \in 1..Len(s) : s[i] = x})

Last(s) == s[Len(s)]

Front(s) == SubSeq(s, 1, Len(s) - 1)

\* history: what the last step did, when it completed one of the calls the
\* properties below are about (t: "got" a get(), "cb" a callback invoked,
\* "notified" a notify(), "dirtied" an update() of a lazy Watcher,
\* "evaluated" an evaluate(), "flushed" a flush, "observed" an observe() of
\* the value v with asRootData c, "same" a write of v that changed nothing,
\* "read" a read of a property by application code,
\* "ran",
\* "tick" and "circular" an error reported); w is the Watcher, d the Dep, ins
\* the items an array mutator inserted, over and vis the outcome of the
\* traverse of a get(), ts the target stack before it, the other fields its
\* details
NoEv ==
    [t |-> "none", w |-> 0, d |-> 0, rd |-> {}, prev |-> {}, snap |-> <<>>,
     done |-> <<>>, ins |-> <<>>, v |-> Undef, old |-> Undef, err |-> FALSE,
     over |-> FALSE, vis |-> <<>>, ts |-> <<>>, c |-> FALSE, k |-> "",
     ran |-> <<>>, act |-> {}, stale |-> {}]

Ev(s, e) == [s EXCEPT !.ev = e]

(***************************************************************************)
(* The whole program state as one record, so that each operation of the    *)
(* source is a function from state to state and calls compose.             *)
(***************************************************************************)
Cur ==
    [heap |-> heap, subs |-> subs, watchers |-> watchers,
     vmWatchers |-> vmWatchers, targetStack |-> targetStack,
     shouldObserve |-> shouldObserve, seenObjects |-> seenObjects,
     queue |-> queue, has |-> has,
     postFlush |-> postFlush,
     waiting |-> waiting, flushing |-> flushing, index |-> index,
     circular |-> circular, callbacks |-> callbacks, pending |-> pending,
     timers |-> timers,
     stack |-> stack, ret |-> ret, exc |-> exc, ev |-> ev, hist |-> hist]

Commit(s) ==
    /\ heap' = s.heap
    /\ subs' = s.subs
    /\ watchers' = s.watchers
    /\ vmWatchers' = s.vmWatchers
    /\ targetStack' = s.targetStack
    /\ shouldObserve' = s.shouldObserve
    /\ seenObjects' = s.seenObjects
    /\ queue' = s.queue
    /\ has' = s.has
    /\ postFlush' = s.postFlush
    /\ waiting' = s.waiting
    /\ flushing' = s.flushing
    /\ index' = s.index
    /\ circular' = s.circular
    /\ callbacks' = s.callbacks
    /\ pending' = s.pending
    /\ timers' = s.timers
    /\ stack' = s.stack
    /\ ret' = IF s.stack = <<>> THEN Undef ELSE s.ret
    /\ exc' = s.exc
    /\ ev' = s.ev
    /\ hist' = s.hist

(***************************************************************************)
(* Call frames.  k is the function the frame belongs to; the other fields  *)
(* are its locals (w: this, pc: position, acc/c: registers of a user       *)
(* function, d: the Dep of a notify, snap/i: the copied list a loop walks   *)
(* and its index).  rd, prev, at, done and ins are history: the Deps        *)
(* depended on during an evaluation, the Deps held when it began, the      *)
(* subscriber list when a notify was called, the Watchers it has updated   *)
(* and the items inserted by the array mutator that called it; ts is the   *)
(* target stack when a get() was called; act is the Watchers that were     *)
(* active when a notify called their update(), ran the calls of run() that *)
(* have returned into it, each with whether it invoked the callback; old   *)
(* is the value a run() found cached; stale is the Watchers a notify has   *)
(* updated that had not read its Dep, see Stale.                           *)
(***************************************************************************)
Frame(k, w) ==
    [k |-> k, w |-> w, code |-> "", pc |-> 1, acc |-> Undef, c |-> FALSE,
     wait |-> FALSE, d |-> 0, snap |-> <<>>, i |-> 1, rd |-> {}, prev |-> {},
     at |-> <<>>, done |-> <<>>, ins |-> <<>>, ts |-> <<>>, ran |-> <<>>,
     act |-> {}, old |-> Undef, stale |-> {}]

Push(s, f) == [s EXCEPT !.stack = Append(@, f)]

Pop(s) == [s EXCEPT !.stack = Front(@)]

Top(s) == Last(s.stack)

SetTop(s, f) == [s EXCEPT !.stack[Len(s.stack)] = f]

(***************************************************************************)
(* dep.js                                                                  *)
(***************************************************************************)
\* Dep.target
Target(s) == IF s.targetStack = <<>> THEN 0 ELSE Last(s.targetStack)

\* new Dep(): id = uid++, subs = []
NewDep(s) == [s EXCEPT !.subs = Append(@, <<>>)]

NextDepId(s) == Len(s.subs)

SubsOf(s, d) == s.subs[d + 1]

AddSub(s, d, w) == [s EXCEPT !.subs[d + 1] = Append(@, w)]

RemoveSub(s, d, w) == [s EXCEPT !.subs[d + 1] = Remove(@, w)]

pushTarget(s, w) == [s EXCEPT !.targetStack = Append(@, w)]

popTarget(s) == [s EXCEPT !.targetStack = Front(@)]

\* history: the innermost evaluation in progress notes the Dep it depends on
RECURSIVE NoteRead(_, _, _)
NoteRead(stk, n, d) ==
    IF n = 0 THEN stk
    ELSE IF stk[n].k = "get" THEN [stk EXCEPT ![n].rd = @ \cup {d}]
    ELSE NoteRead(stk, n - 1, d)

(***************************************************************************)
(* watcher.js: addDep, cleanupDeps, depend, teardown                       *)
(***************************************************************************)
\* addDep without the test of depIds: subscribes again on every evaluation
addDep_Resubscribes(s, w, d) ==
    IF d \in s.watchers[w].newDepIds THEN s
    ELSE AddSub([s EXCEPT !.watchers[w].newDepIds = @ \cup {d},
                          !.watchers[w].newDeps = Append(@, d)], d, w)

addDep(s, w, d) ==
    IF d \in s.watchers[w].newDepIds THEN s
    ELSE LET s1 == [s EXCEPT !.watchers[w].newDepIds = @ \cup {d},
                             !.watchers[w].newDeps = Append(@, d)]
         IN  IF d \in s.watchers[w].depIds THEN s1 ELSE AddSub(s1, d, w)

\* a depend() that, without a target, takes the Watcher created last
DepDepend_AnyWatcher(s, d) ==
    LET w == IF Target(s) # 0 THEN Target(s) ELSE Len(s.watchers)
    IN  IF w # 0
        THEN addDep([s EXCEPT !.stack = NoteRead(@, Len(@), d)], w, d)
        ELSE s

\* Dep.depend()
DepDepend(s, d) ==
    IF Target(s) # 0
    THEN addDep([s EXCEPT !.stack = NoteRead(@, Len(@), d)], Target(s), d)
    ELSE s

\* depend() on each Dep of a list, first to last
RECURSIVE DependAll(_, _)
DependAll(s, ds) ==
    IF ds = <<>> THEN s ELSE DependAll(DepDepend(s, Head(ds)), Tail(ds))

Reverse(sq) == [i \in 1..Len(sq) |-> sq[Len(sq) + 1 - i]]

\* the loop of cleanupDeps: i = deps.length; while (i--) ...
RECURSIVE DropStale(_, _, _)
DropStale(s, w, i) ==
    IF i = 0 THEN s
    ELSE LET d == s.watchers[w].deps[i]
         IN  DropStale(IF d \notin s.watchers[w].newDepIds
                       THEN RemoveSub(s, d, w) ELSE s, w, i - 1)

cleanupDeps(s, w) ==
    LET s1 == DropStale(s, w, Len(s.watchers[w].deps))
    IN  [s1 EXCEPT !.watchers[w].depIds = s1.watchers[w].newDepIds,
                   !.watchers[w].newDepIds = {},
                   !.watchers[w].deps = s1.watchers[w].newDeps,
                   !.watchers[w].newDeps = <<>>]

\* Watcher.depend(): i = deps.length; while (i--) deps[i].depend()
WatcherDepend(s, w) == DependAll(s, Reverse(s.watchers[w].deps))

RECURSIVE RemoveFromAll(_, _, _)
RemoveFromAll(s, w, i) ==
    IF i = 0 THEN s
    ELSE RemoveFromAll(RemoveSub(s, s.watchers[w].deps[i], w), w, i - 1)

\* teardown() without the test of this.active
teardown_NoActiveTest(s, w) ==
    LET s1 == [s EXCEPT !.vmWatchers = Remove(@, w)]
        s2 == RemoveFromAll(s1, w, Len(s1.watchers[w].deps))
    IN  [s2 EXCEPT !.watchers[w].active = FALSE]

teardown(s, w) ==
    IF s.watchers[w].active
    THEN LET s1 == [s EXCEPT !.vmWatchers = Remove(@, w)]
             s2 == RemoveFromAll(s1, w, Len(s1.watchers[w].deps))
         IN  [s2 EXCEPT !.watchers[w].active = FALSE]
    ELSE s

(***************************************************************************)
(* observer/index.js: the heap of plain objects and arrays, observe,       *)
(* Observer, defineReactive.                                               *)
(*                                                                         *)
(* An object is [arr, elems, props, ob, dep, vmCount, frozen, ext] (frozen: *)
(* Object.isFrozen, ext: Object.isExtensible): ob says it                  *)
(* carries __ob__, dep is the id of __ob__.dep.  A property is             *)
(* [own, val, rx, dep, childOb]: rx says defineReactive installed the      *)
(* accessor pair, dep and childOb are the closure variables of the pair    *)
(* (childOb = 0 for none), val the closure's val (or the plain value).     *)
(***************************************************************************)
Keys == {"flag", "a", "b", "o", "m", "n"}

\* Object.keys order
KeyOrder == <<"flag", "a", "b", "o", "m", "n">>

NoProp ==
    [own |-> FALSE, val |-> Undef, rx |-> FALSE, dep |-> 0, childOb |-> 0,
     customSetter |-> FALSE]

PlainProp(v) ==
    [own |-> TRUE, val |-> v, rx |-> FALSE, dep |-> 0, childOb |-> 0,
     customSetter |-> FALSE]

NoProps == [k \in Keys |-> NoProp]

PlainObject(ps) ==
    [arr |-> FALSE, elems |-> <<>>, props |-> ps, ob |-> FALSE, dep |-> 0,
     vmCount |-> 0, frozen |-> FALSE, ext |-> TRUE, isVue |-> FALSE]

PlainArray(es) ==
    [arr |-> TRUE, elems |-> es, props |-> NoProps, ob |-> FALSE, dep |-> 0,
     vmCount |-> 0, frozen |-> FALSE, ext |-> TRUE, isVue |-> FALSE]

\* the Observer observe(v) returns once it has run: v.__ob__, or 0 for undefined
ObOf(s, v) == IF IsObject(v) /\ s.heap[v.n].ob THEN v.n ELSE 0

RECURSIVE observe(_, _, _), NewObserver(_, _), walk(_, _, _), observeArray(_, _),
          defineReactive(_, _, _, _)

\* observe() without the test for an existing __ob__
observe_Again(s, v, asRootData) ==
    IF ~IsObject(v) THEN s
    ELSE LET o == v.n
             s1 == IF s.shouldObserve /\ s.heap[o].ext /\ ~s.heap[o].isVue
                   THEN NewObserver(s, o)
                   ELSE s
         IN  IF asRootData /\ s1.heap[o].ob
             THEN [s1 EXCEPT !.heap[o].vmCount = @ + 1]
             ELSE s1

observe(s, v, asRootData) ==
    IF ~IsObject(v) THEN s
    ELSE LET o == v.n
             s1 == IF s.heap[o].ob THEN s
                   ELSE IF s.shouldObserve /\ s.heap[o].ext /\ ~s.heap[o].isVue
                   THEN NewObserver(s, o)
                   ELSE s
         IN  IF asRootData /\ s1.heap[o].ob
             THEN [s1 EXCEPT !.heap[o].vmCount = @ + 1]
             ELSE s1

\* new Observer(value)
NewObserver(s, o) ==
    LET s1 == [NewDep(s) EXCEPT !.heap[o].ob = TRUE,
                                !.heap[o].dep = NextDepId(s),
                                !.heap[o].vmCount = 0]
    IN  IF s.heap[o].arr THEN observeArray(s1, s1.heap[o].elems)
        ELSE walk(s1, o, 1)

\* Observer.walk: defineReactive(obj, keys[i]) for the own keys, in order
walk(s, o, i) ==
    IF i > Len(KeyOrder) THEN s
    ELSE LET k == KeyOrder[i]
         IN  walk(IF s.heap[o].props[k].own
                  THEN defineReactive(s, o, k, s.heap[o].props[k].val)
                  ELSE s, o, i + 1)

\* Observer.observeArray
observeArray(s, items) ==
    IF items = <<>> THEN s
    ELSE observeArray(observe(s, Head(items), FALSE), Tail(items))

\* defineReactive(obj, key, val): dep = new Dep(); childOb = observe(val);
\* then the accessor pair is installed
defineReactive(s, o, k, val) ==
    LET d == NextDepId(s)
        s1 == observe(NewDep(s), val, FALSE)
    IN  [s1 EXCEPT !.heap[o].props[k] =
            [own |-> TRUE, val |-> val, rx |-> TRUE, dep |-> d,
             childOb |-> ObOf(s1, val), customSetter |-> FALSE]]

\* initProps of a component that has a parent, in a build that is not the
\* production build: toggleObserving(false); for each key of the props
\* defineReactive(props, key, value, customSetter); toggleObserving(true)
RECURSIVE DefineProps(_, _, _)
DefineProps(s, o, i) ==
    IF i > Len(KeyOrder) THEN s
    ELSE LET k == KeyOrder[i]
             s1 == defineReactive(s, o, k, s.heap[o].props[k].val)
         IN  DefineProps(IF s.heap[o].props[k].own
                         THEN [s1 EXCEPT !.heap[o].props[k].customSetter = TRUE]
                         ELSE s, o, i + 1)

initProps(s, o) ==
    [DefineProps([s EXCEPT !.shouldObserve = FALSE], o, 1)
        EXCEPT !.shouldObserve = TRUE]

\* dependArray(value): the Deps depend() is called on, in order
RECURSIVE dependArray(_, _)
dependArray(s, es) ==
    IF es = <<>> THEN <<>>
    ELSE LET e == Head(es)
         IN  (IF IsObject(e) /\ s.heap[e.n].ob THEN <<s.heap[e.n].dep>> ELSE <<>>)
             \o (IF IsObject(e) /\ s.heap[e.n].arr
                 THEN dependArray(s, s.heap[e.n].elems) ELSE <<>>)
             \o dependArray(s, Tail(es))

\* the value a read of obj[key] returns
ValueAt(s, o, k) == s.heap[o].props[k].val

\* reactiveGetter: the Deps it calls depend() on when Dep.target is set
GetterDeps(s, o, k) ==
    LET p == s.heap[o].props[k]
    IN  IF ~p.rx THEN <<>>
        ELSE <<p.dep>>
             \o (IF p.childOb # 0
                 THEN <<s.heap[p.childOb].dep>>
                      \o (IF IsObject(p.val) /\ s.heap[p.val.n].arr
                          THEN dependArray(s, s.heap[p.val.n].elems) ELSE <<>>)
                 ELSE <<>>)

\* a read of obj[key]: through reactiveGetter when the property is reactive
reactiveGetter(s, o, k) == DependAll(s, GetterDeps(s, o, k))

(***************************************************************************)
(* Evaluation functions and result callbacks are user code.  Each is a     *)
(* short program over two registers: acc, the value last read (and the     *)
(* value the function returns), and c, a condition.  An instruction runs   *)
(* always ("*"), only when c holds ("t") or only when it does not ("f").   *)
(*   rd o k     acc = o[k]                                                 *)
(*   rdacc k    acc = acc[k]                                               *)
(*   tst        c = !!acc                                                  *)
(*   wr o k v   o[k] = v                                                   *)
(*   rdc        acc = vm.c, the computed property                          *)
(*   td n       teardown of Watcher n (0: the Watcher the code belongs to) *)
(*   throw      throw                                                      *)
(*   nt cb      nextTick(cb)                                               *)
(***************************************************************************)
Ins(op, cnd, o, k, v) == [op |-> op, cnd |-> cnd, o |-> o, k |-> k, v |-> v]

Rd(o, k) == Ins("rd", "*", o, k, Undef)
RdT(o, k) == Ins("rd", "t", o, k, Undef)
RdF(o, k) == Ins("rd", "f", o, k, Undef)
RdAcc(k) == Ins("rdacc", "*", 0, k, Undef)
Tst == Ins("tst", "*", 0, "", Undef)
Wr(o, k, v) == Ins("wr", "*", o, k, v)
WrT(o, k, v) == Ins("wr", "t", o, k, v)
WrF(o, k, v) == Ins("wr", "f", o, k, v)
RdC == Ins("rdc", "*", 0, "", Undef)
Td(n) == Ins("td", "*", n, "", Undef)
Throw == Ins("throw", "*", 0, "", Undef)
Nt(cb) == Ins("nt", "*", 0, cb, Undef)
Pf(cb) == Ins("pf", "*", 0, cb, Undef)

\* the data object of the component: vm._data
Root == 1

Code(name) ==
    CASE name = "a" -> <<Rd(Root, "a")>>
      [] name = "aa" -> <<Rd(Root, "a"), Rd(Root, "a")>>
      [] name = "flag?a:b" -> <<Rd(Root, "flag"), Tst, RdT(Root, "a"), RdF(Root, "b")>>
      [] name = "c" -> <<RdC>>
      [] name = "b" -> <<Rd(Root, "b")>>
      [] name = "a;unwatch;b" -> <<Rd(Root, "a"), Td(0), Rd(Root, "b")>>
      [] name = "flag&&(flag=0);a" ->
            <<Rd(Root, "flag"), Tst, WrT(Root, "flag", Num(0)), Rd(Root, "a")>>
      [] name = "a;throw" -> <<Rd(Root, "a"), Throw>>
      [] name = "o" -> <<Rd(Root, "o")>>
      [] name = "o.m.n" -> <<Rd(Root, "o"), RdAcc("m"), RdAcc("n")>>
      [] name = "unwatch1" -> <<Td(1)>>
      [] name = "unwatch2" -> <<Td(2)>>
      [] name = "b=1" -> <<Wr(Root, "b", Num(1))>>
      [] name = "flag?o:b" -> <<Rd(Root, "flag"), Tst, RdT(Root, "o"), RdF(Root, "b")>>
      [] name = "b;a" -> <<Rd(Root, "b"), Rd(Root, "a")>>
      [] name = "b;o" -> <<Rd(Root, "b"), Rd(Root, "o")>>
      [] name = "a&&(a=0)" -> <<Rd(Root, "a"), Tst, WrT(Root, "a", Num(0))>>
      [] name = "a;c" -> <<Rd(Root, "a"), RdC>>
      [] name = "throw" -> <<Throw>>
      [] name = "props.b" -> <<Rd(2, "b")>>
      [] name = "o.n" -> <<Rd(Root, "o"), RdAcc("n")>>
      [] name = "props.o" -> <<Rd(2, "o")>>
      [] name = "nextTick(y)" -> <<Nt("y")>>
      [] name = "a;after(x)" -> <<Rd(Root, "a"), Pf("x")>>
      [] name = "b;after(b=1)" -> <<Rd(Root, "b"), Pf("b=1")>>
      [] name = "again" -> <<Nt("again")>>
      [] name = "nextTick(x);throw" -> <<Nt("x"), Throw>>
      [] name = "flag=!flag" ->
            <<Rd(Root, "flag"), Tst, WrT(Root, "flag", Num(0)),
              WrF(Root, "flag", Num(1))>>
      [] name = "a=!a" ->
            <<Rd(Root, "a"), Tst, WrT(Root, "a", Num(0)), WrF(Root, "a", Num(1))>>
      [] name = "b;b=!b" ->
            <<Rd(Root, "b"), Tst, WrT(Root, "b", Num(0)), WrF(Root, "b", Num(1))>>
      [] OTHER -> <<>>

(***************************************************************************)
(* watcher.js: get, run, update, evaluate; dep.js: notify; the reactive    *)
(* setter; the computed getter of instance/state.js.                       *)
(***************************************************************************)
\* traverse.js: _traverse(val, seen).  The result is [s, seen, over, vis]:
\* the state, the seen set, whether the recursion went deeper than the call
\* stack of the runtime allows (a RangeError then unwinds every call), and, as
\* history, the containers whose entries were read, in order.  seen is
\* seenObjects while the traverse is in progress.  depth is the
\* number of _traverse calls on the stack.
RECURSIVE Traverse(_, _, _, _, _), TraverseKeys(_, _, _, _, _),
          TraverseElems(_, _, _, _, _)

\* a recursion this deep does not end: it has gone round a cycle of
\* containers more than twice, and the seen set stops the second round of
\* every cycle that holds an observed container
StackLimit(s) == 2 * Cardinality(DOMAIN s.heap) + 1

Traverse(s, r, v, depth, limit) ==
    IF depth > limit THEN [r EXCEPT !.s = s, !.over = TRUE]
    ELSE IF ~IsObject(v) \/ s.heap[v.n].frozen THEN [r EXCEPT !.s = s]
    ELSE LET o == v.n
             h == s.heap[o]
         IN  IF h.ob /\ h.dep \in r.seen THEN [r EXCEPT !.s = s]
             ELSE LET r1 == [r EXCEPT !.s = s,
                                      !.seen = IF h.ob THEN @ \cup {h.dep} ELSE @,
                                      !.vis = Append(@, o)]
                  IN  IF h.arr
                      THEN TraverseElems(r1, o, Len(h.elems), depth, limit)
                      ELSE TraverseKeys(r1, o, Len(KeyOrder), depth, limit)

\* i = keys.length; while (i--) _traverse(val[keys[i]], seen)
TraverseKeys(r, o, i, depth, limit) ==
    IF i = 0 \/ r.over THEN r
    ELSE LET k == KeyOrder[i]
         IN  IF ~r.s.heap[o].props[k].own
             THEN TraverseKeys(r, o, i - 1, depth, limit)
             ELSE TraverseKeys(Traverse(reactiveGetter(r.s, o, k), r,
                                        ValueAt(r.s, o, k), depth + 1, limit),
                               o, i - 1, depth, limit)

\* i = val.length; while (i--) _traverse(val[i], seen)
TraverseElems(r, o, i, depth, limit) ==
    IF i = 0 \/ r.over THEN r
    ELSE TraverseElems(Traverse(r.s, r, r.s.heap[o].elems[i], depth + 1, limit),
                       o, i - 1, depth, limit)

NoTraverse(s) == [s |-> s, seen |-> {}, over |-> FALSE, vis |-> <<>>]

\* a traverse that visits nothing
traverse_VisitsNothing(s, v) == NoTraverse(s)

\* traverse(val): _traverse(val, seenObjects); seenObjects.clear().  An
\* exception out of _traverse leaves before the clear().
traverse(s, v) ==
    LET r == Traverse(s, [NoTraverse(s) EXCEPT !.seen = s.seenObjects], v, 1,
                      StackLimit(s))
    IN  [r EXCEPT !.s.seenObjects = IF r.over THEN r.seen ELSE {}]

\* Watcher.get() up to the call of the evaluation function
Get(s, w) ==
    LET s1 == pushTarget(s, w)
        s2 == Push(s1, [Frame("get", w) EXCEPT !.prev = SeqSet(s.watchers[w].deps),
                                               !.ts = s.targetStack])
        s3 == Push(s2, [Frame("script", w) EXCEPT !.code = s.watchers[w].g])
    IN  s3

\* Watcher.get() from the return (or throw) of the evaluation function:
\* catch, finally { traverse; popTarget; cleanupDeps }, return value.  An
\* exception out of traverse leaves the finally block at once.
GetFinish(s) ==
    LET w == Top(s).w
        value == IF s.exc THEN Undef ELSE s.ret
        r == IF s.watchers[w].deep THEN traverse(s, value) ELSE NoTraverse(s)
        s1 == r.s
        s2 == IF r.over THEN s1 ELSE cleanupDeps(popTarget(s1), w)
        f == Top(s1)
    IN  [Pop(s2) EXCEPT !.ret = IF r.over THEN Undef ELSE value,
                        !.hist.lastrd[w] = IF s.hist.runs THEN f.rd ELSE @,
                        !.hist.lastv[w] =
                            IF s.hist.runs /\ ~r.over
                               /\ ~(s.exc /\ ~s.watchers[w].user)
                            THEN value ELSE @,
                        !.exc = r.over \/ (s.exc /\ ~s.watchers[w].user),
                        !.ev = [NoEv EXCEPT !.t = "got", !.w = w, !.rd = f.rd,
                                            !.prev = f.prev, !.v = value,
                                            !.err = s.exc /\ s.watchers[w].user,
                                            !.over = r.over, !.vis = r.vis,
                                            !.ts = f.ts]]

\* history: the calls of run() on Watchers that are not sync, since the last
\* completed flush
LogRun(s, w) ==
    IF s.watchers[w].sync THEN s ELSE [s EXCEPT !.hist.runlog = Append(@, w)]

\* run() without the test of this.active
Run_IgnoresActive(s, w) ==
    Get(Push(LogRun(s, w),
             [Frame("run", w) EXCEPT !.c = s.watchers[w].active]), w)

\* Watcher.run() up to the call of get().  History: the frame's c notes
\* whether the Watcher was active when run() was entered.
Run(s, w) ==
    IF s.watchers[w].active
    THEN Get(Push(LogRun(s, w),
                  [Frame("run", w) EXCEPT !.c = s.watchers[w].active]), w)
    ELSE LogRun(s, w)

\* history: the frame of a notify() notes the run() that has returned into it
NoteRun(s, w, fired) ==
    IF s.stack # <<>> /\ Top(s).k = "notify"
    THEN SetTop(s, [Top(s) EXCEPT !.ran = Append(@, <<w, fired>>)])
    ELSE s

\* history, kept where hist.runs is set: a run() that has returned, the value
\* it evaluated, the value it found cached and whether it invoked the callback
Returned(s, w, value, old, fired) ==
    IF s.hist.runs
    THEN Ev(s, [NoEv EXCEPT !.t = "returned", !.w = w, !.v = value, !.old = old,
                            !.c = fired])
    ELSE Ev(s, NoEv)

\* a run() that lets the exception of a callback pass
RunStep_Rethrows(s) ==
    LET f == Top(s)
        w == f.w
        value == s.ret
    IN  IF f.pc = 1
        THEN IF s.exc THEN Pop(s)
             ELSE IF ~StrictEq(value, s.watchers[w].value) \/ IsObject(value)
                     \/ s.watchers[w].deep
             THEN LET s1 == SetTop(s, [f EXCEPT !.pc = 2, !.acc = value,
                                                !.old = s.watchers[w].value])
                      s2 == [s1 EXCEPT !.watchers[w].value = value,
                                       !.hist.fired =
                                           IF s.flushing THEN @ \cup {w} ELSE @]
                      s3 == Push(s2, [Frame("script", w) EXCEPT
                                         !.code = s.watchers[w].cb])
                  IN  Ev(s3, [NoEv EXCEPT !.t = "cb", !.w = w, !.v = value,
                                          !.old = s.watchers[w].value])
             ELSE Returned(NoteRun(Pop(s), w, FALSE), w, value,
                           s.watchers[w].value, FALSE)
        ELSE IF s.exc THEN Ev(Pop(s), NoEv)
        ELSE Returned(NoteRun(Pop(s), w, TRUE), w, f.acc, f.old, TRUE)

\* a run() that compares the values and nothing else
RunStep_ComparesOnly(s) ==
    LET f == Top(s)
        w == f.w
        value == s.ret
    IN  IF f.pc = 1
        THEN IF s.exc THEN Pop(s)
             ELSE IF ~StrictEq(value, s.watchers[w].value)
             THEN LET s1 == SetTop(s, [f EXCEPT !.pc = 2, !.acc = value,
                                                !.old = s.watchers[w].value])
                      s2 == [s1 EXCEPT !.watchers[w].value = value,
                                       !.hist.fired =
                                           IF s.flushing THEN @ \cup {w} ELSE @]
                      s3 == Push(s2, [Frame("script", w) EXCEPT
                                         !.code = s.watchers[w].cb])
                  IN  Ev(s3, [NoEv EXCEPT !.t = "cb", !.w = w, !.v = value,
                                          !.old = s.watchers[w].value])
             ELSE Returned(NoteRun(Pop(s), w, FALSE), w, value,
                           s.watchers[w].value, FALSE)
        ELSE IF s.exc /\ s.watchers[w].user
             THEN Ev([NoteRun(Pop(s), w, TRUE) EXCEPT !.exc = FALSE],
                     [NoEv EXCEPT !.t = "ran", !.w = w, !.err = TRUE])
             ELSE IF s.exc THEN Ev(Pop(s), NoEv)
             ELSE Returned(NoteRun(Pop(s), w, TRUE), w, f.acc, f.old, TRUE)

\* Watcher.run() after get() returned, and after the callback returned.
\* History: hist.fired notes the Watchers whose callback a flush has invoked.
RunStep(s) ==
    LET f == Top(s)
        w == f.w
        value == s.ret
    IN  IF f.pc = 1
        THEN IF s.exc THEN Pop(s)
             ELSE IF ~StrictEq(value, s.watchers[w].value) \/ IsObject(value)
                     \/ s.watchers[w].deep
             THEN LET s1 == SetTop(s, [f EXCEPT !.pc = 2, !.acc = value,
                                                !.old = s.watchers[w].value])
                      s2 == [s1 EXCEPT !.watchers[w].value = value,
                                       !.hist.fired =
                                           IF s.flushing THEN @ \cup {w} ELSE @]
                      s3 == Push(s2, [Frame("script", w) EXCEPT
                                         !.code = s.watchers[w].cb])
                  IN  Ev(s3, [NoEv EXCEPT !.t = "cb", !.w = w, !.v = value,
                                          !.old = s.watchers[w].value])
             ELSE Returned(NoteRun(Pop(s), w, FALSE), w, value,
                           s.watchers[w].value, FALSE)
        ELSE IF s.exc /\ s.watchers[w].user
             THEN Ev([NoteRun(Pop(s), w, TRUE) EXCEPT !.exc = FALSE],
                     [NoEv EXCEPT !.t = "ran", !.w = w, !.err = TRUE])
             ELSE IF s.exc THEN Ev(Pop(s), NoEv)
             ELSE Returned(NoteRun(Pop(s), w, TRUE), w, f.acc, f.old, TRUE)

(***************************************************************************)
(* util/next-tick: nextTick and flushCallbacks.  A callback is named by    *)
(* the code it runs; "flush" is the scheduler's flushSchedulerQueue.       *)
(***************************************************************************)
\* history, kept where hist.log is set: hist.reg is the callbacks in the
\* order of their registration, from the first one the last drain had
\* pending; hist.ran the callbacks the drain in progress has invoked, in
\* order; hist.mark the number of callbacks registered when it started
Registered(s, cb) ==
    IF s.hist.log THEN [s EXCEPT !.hist.reg = Append(@, cb)] ELSE s

Invoked(s, cb) ==
    IF s.hist.log THEN [s EXCEPT !.hist.ran = Append(@, cb)] ELSE s

\* a nextTick that calls the timer function for every callback
nextTick_AlwaysSchedules(s, cb) ==
    LET s1 == Registered([s EXCEPT !.callbacks = Append(@, cb)], cb)
    IN  [s1 EXCEPT !.pending = TRUE, !.timers = @ + 1]

\* a nextTick that puts the callback in front of the pending ones
nextTick_Prepends(s, cb) ==
    LET s1 == Registered([s EXCEPT !.callbacks = <<cb>> \o @], cb)
    IN  IF s1.pending THEN s1
        ELSE [s1 EXCEPT !.pending = TRUE, !.timers = @ + 1]

nextTick(s, cb) ==
    LET s1 == Registered([s EXCEPT !.callbacks = Append(@, cb)], cb)
    IN  IF s1.pending THEN s1
        ELSE [s1 EXCEPT !.pending = TRUE, !.timers = @ + 1]

\* flushCallbacks up to its loop: pending = false; copies = callbacks.slice(0);
\* callbacks.length = 0
flushCallbacks(s) ==
    Push([s EXCEPT !.pending = FALSE, !.callbacks = <<>>,
                   !.hist.mark = IF s.hist.log THEN Len(s.hist.reg) ELSE @],
         [Frame("drain", 0) EXCEPT !.snap = s.callbacks])

(***************************************************************************)
(* The scheduler: queueWatcher and flushSchedulerQueue.                    *)
(***************************************************************************)
MaxUpdateCount == 2

\* the registration of a post-flush callback by the render layer.  History:
\* hist.post is the order of the registrations since the last flush.
queuePostFlush(s, cb) ==
    [s EXCEPT !.postFlush = Append(@, cb), !.hist.post = Append(@, cb)]

IdOf(s, w) == s.watchers[w].id

\* the position after which w goes: the last entry after `from' whose id is
\* not above w's
RECURSIVE SortedPos(_, _, _, _)
SortedPos(s, w, from, i) ==
    IF i > from /\ IdOf(s, s.queue[i]) > IdOf(s, w)
    THEN SortedPos(s, w, from, i - 1) ELSE i

InsertAt(q, i, x) == SubSeq(q, 1, i) \o <<x>> \o SubSeq(q, i + 1, Len(q))

\* queueWatcher without the test of the queued mark
queueWatcher_NoMark(s, w) ==
    LET from == IF s.flushing THEN s.index ELSE 0
        pos == SortedPos(s, w, from, Len(s.queue))
        s1 == [s EXCEPT !.has = @ \cup {IdOf(s, w)},
                        !.queue = InsertAt(@, pos, w),
                        !.hist.order = IF s.flushing THEN @ ELSE Append(@, w),
                        !.hist.requeued = IF s.flushing THEN @ \cup {w} ELSE @]
    IN  IF s1.waiting THEN s1
        ELSE nextTick([s1 EXCEPT !.waiting = TRUE], "flush")

\* queueWatcher that always inserts at the end of the list
queueWatcher_Appends(s, w) ==
    IF IdOf(s, w) \in s.has THEN s
    ELSE LET s1 == [s EXCEPT !.has = @ \cup {IdOf(s, w)},
                             !.queue = Append(@, w),
                             !.hist.order =
                                 IF s.flushing THEN @ ELSE Append(@, w),
                             !.hist.requeued =
                                 IF s.flushing THEN @ \cup {w} ELSE @]
         IN  IF s1.waiting THEN s1
             ELSE nextTick([s1 EXCEPT !.waiting = TRUE], "flush")

queueWatcher(s, w) ==
    IF IdOf(s, w) \in s.has THEN s
    ELSE LET from == IF s.flushing THEN s.index ELSE 0
             pos == SortedPos(s, w, from, Len(s.queue))
             s1 == [s EXCEPT !.has = @ \cup {IdOf(s, w)},
                             !.queue = InsertAt(@, pos, w),
                             !.hist.order =
                                 IF s.flushing THEN @ ELSE Append(@, w),
                             !.hist.requeued =
                                 IF s.flushing THEN @ \cup {w} ELSE @]
         IN  IF s1.waiting THEN s1
             ELSE nextTick([s1 EXCEPT !.waiting = TRUE], "flush")

RECURSIVE SortById(_, _)
SortById(s, q) ==
    IF q = <<>> THEN <<>>
    ELSE LET rest == SortById(s, Tail(q))
             n == Cardinality({i \in 1..Len(rest) :
                                  IdOf(s, rest[i]) < IdOf(s, Head(q))})
         IN  InsertAt(rest, n, Head(q))

\* flushSchedulerQueue up to its loop
flushSchedulerQueue(s) ==
    LET q == SortById(s, s.queue)
    IN  Push([s EXCEPT !.flushing = TRUE, !.queue = q, !.index = 1,
                       !.hist.batch = SeqSet(q)],
             Frame("flush", 0))

\* update() that queues a sync Watcher like any other
update_QueuesSync(s, w) ==
    IF s.watchers[w].lazy THEN [s EXCEPT !.watchers[w].dirty = TRUE]
    ELSE queueWatcher(s, w)

\* update() that runs every Watcher that is not lazy at once, and queues it
update_RunsAtOnce(s, w) ==
    IF s.watchers[w].lazy THEN [s EXCEPT !.watchers[w].dirty = TRUE]
    ELSE Run(queueWatcher(s, w), w)

\* update() that treats a lazy Watcher as a sync one
update_LazyRuns(s, w) ==
    IF s.watchers[w].lazy \/ s.watchers[w].sync THEN Run(s, w)
    ELSE queueWatcher(s, w)

\* Watcher.update()
update(s, w) ==
    IF s.watchers[w].lazy THEN [s EXCEPT !.watchers[w].dirty = TRUE]
    ELSE IF s.watchers[w].sync THEN Run(s, w)
    ELSE queueWatcher(s, w)

\* notify() with its loop starting one entry late
notify_SkipsFirst(s, d) ==
    Push(s, [Frame("notify", 0) EXCEPT !.snap = SubsOf(s, d), !.d = d, !.i = 2,
                                       !.at = s.subs[d + 1]])

\* Dep.notify() up to its loop: subs = this.subs.slice()
notify(s, d) ==
    Push(s, [Frame("notify", 0) EXCEPT !.snap = SubsOf(s, d), !.d = d,
                                       !.at = s.subs[d + 1]])

\* history, kept where hist.runs is set: the Watcher w that a notify() of Dep
\* d is about to update has not depended on d, neither in its latest
\* evaluation that is over nor in one that is in progress
Stale(s, w, d) ==
    /\ s.hist.runs
    /\ d \notin s.hist.lastrd[w]
    /\ \A i \in 1..Len(s.stack) :
          s.stack[i].k = "get" /\ s.stack[i].w = w => d \notin s.stack[i].rd

\* history: the frame of a call of set or del notes the Deps whose notify()
\* it called and that have returned
NoteNotify(s, d) ==
    IF s.stack # <<>> /\ Top(s).k \in {"set", "del"}
    THEN SetTop(s, [Top(s) EXCEPT !.done = Append(@, d)])
    ELSE s

\* the loop of notify() over this.subs itself, not over the copy
NotifyStep_LiveList(s) ==
    LET f == Top(s)
        live == s.subs[f.d + 1]
    IN  IF s.exc THEN Ev(Pop(s), NoEv)
        ELSE IF f.i > Len(live)
        THEN Ev(NoteNotify(Pop(s), f.d),
                [NoEv EXCEPT !.t = "notified", !.d = f.d,
                             !.snap = f.at, !.done = f.done, !.ins = f.ins,
                             !.ran = f.ran, !.act = f.act, !.stale = f.stale])
        ELSE LET w == live[f.i]
                 s1 == SetTop(s, [f EXCEPT !.i = @ + 1, !.done = Append(@, w),
                                           !.act = IF s.watchers[w].active
                                                   THEN @ \cup {w} ELSE @,
                                           !.stale = IF Stale(s, w, f.d)
                                                     THEN @ \cup {w} ELSE @])
             IN  IF s.watchers[w].lazy
                 THEN Ev(update(s1, w), [NoEv EXCEPT !.t = "dirtied", !.w = w])
                 ELSE update(s1, w)

\* one turn of the loop of Dep.notify(): subs[i].update()
NotifyStep(s) ==
    LET f == Top(s)
    IN  IF s.exc THEN Ev(Pop(s), NoEv)
        ELSE IF f.i > Len(f.snap)
        THEN Ev(NoteNotify(Pop(s), f.d),
                [NoEv EXCEPT !.t = "notified", !.d = f.d,
                                     !.snap = f.at, !.done = f.done,
                                     !.ins = f.ins, !.ran = f.ran,
                                     !.act = f.act, !.stale = f.stale])
        ELSE LET w == f.snap[f.i]
                 s1 == SetTop(s, [f EXCEPT !.i = @ + 1, !.done = Append(@, w),
                                           !.act = IF s.watchers[w].active
                                                   THEN @ \cup {w} ELSE @,
                                           !.stale = IF Stale(s, w, f.d)
                                                     THEN @ \cup {w} ELSE @])
             IN  IF s.watchers[w].lazy
                 THEN Ev(update(s1, w), [NoEv EXCEPT !.t = "dirtied", !.w = w])
                 ELSE update(s1, w)

\* a reactiveSetter that does not compare the new value with the old one
reactiveSetter_NoCompare(s, o, k, newVal) ==
    LET p == s.heap[o].props[k]
    IN  IF ~p.rx
        THEN IF s.heap[o].frozen THEN s
             ELSE [s EXCEPT !.heap[o].props[k].val = newVal,
                            !.heap[o].props[k].own = TRUE]
        ELSE LET s1 == [s EXCEPT !.heap[o].props[k].val = newVal]
                 s2 == observe(s1, newVal, FALSE)
                 s3 == [s2 EXCEPT !.heap[o].props[k].childOb = ObOf(s2, newVal)]
             IN  notify(s3, p.dep)

\* an assignment obj[key] = newVal: reactiveSetter when the property is
\* reactive, a plain store otherwise.  History: hist.warned notes the
\* properties whose customSetter was called.
reactiveSetter(s, o, k, newVal) ==
    LET p == s.heap[o].props[k]
    IN  IF ~p.rx
        THEN IF s.heap[o].frozen THEN s
             ELSE [s EXCEPT !.heap[o].props[k].val = newVal,
                            !.heap[o].props[k].own = TRUE]
        ELSE IF StrictEq(newVal, p.val) \/ (newVal.t = "nan" /\ p.val.t = "nan")
        THEN s
        ELSE LET s0 == IF p.customSetter
                       THEN [s EXCEPT !.hist.warned = @ \cup {<<o, k>>}] ELSE s
                 s1 == [s0 EXCEPT !.heap[o].props[k].val = newVal]
                 s2 == observe(s1, newVal, FALSE)
                 s3 == [s2 EXCEPT !.heap[o].props[k].childOb = ObOf(s2, newVal)]
             IN  notify(s3, p.dep)

\* Array.prototype[method].apply(this, args) for a call
\* [m, start, del, items]: items are the arguments of push and unshift and
\* the third and later arguments of splice
Native(es, call) ==
    CASE call.m = "push" -> es \o call.items
      [] call.m = "unshift" -> call.items \o es
      [] call.m = "splice" ->
            LET start == IF call.start > Len(es) THEN Len(es) ELSE call.start
                del == IF call.del > Len(es) - start THEN Len(es) - start
                       ELSE call.del
            IN  SubSeq(es, 1, start) \o call.items
                \o SubSeq(es, start + del + 1, Len(es))
      [] call.m = "pop" -> IF es = <<>> THEN es ELSE Front(es)
      [] call.m = "shift" -> IF es = <<>> THEN es ELSE Tail(es)
      [] call.m = "reverse" -> Reverse(es)

\* the inserted of mutator: args for push and unshift, args.slice(2) for
\* splice, undefined (here empty) otherwise
Inserted(call) ==
    IF call.m \in {"push", "unshift", "splice"} THEN call.items ELSE <<>>

\* a mutator that does not observe what it inserts
mutator_NotifiesOnly(s, o, call) ==
    LET s1 == [s EXCEPT !.heap[o].elems = Native(@, call)]
        s3 == notify(s1, s.heap[o].dep)
    IN  SetTop(s3, [Top(s3) EXCEPT !.ins = Inserted(call)])

\* array.js: the mutator installed over an observed array's methods, up to
\* the loop of ob.dep.notify()
mutator(s, o, call) ==
    LET s1 == [s EXCEPT !.heap[o].elems = Native(@, call)]
        s2 == observeArray(s1, Inserted(call))
        s3 == notify(s2, s.heap[o].dep)
    IN  SetTop(s3, [Top(s3) EXCEPT !.ins = Inserted(call)])

\* the frame of a call of set or del: the target, the key, the value to
\* return and, as history, whether the call notifies a Dep
SetFrame(s, kind, o, key, val, notified) ==
    Push(s, [Frame(kind, 0) EXCEPT !.d = o, !.code = key, !.acc = val,
                                   !.c = notified])

\* target[pos] on an array: set's `target.length = Math.max(target.length,
\* key)' and the splice of set and del.  The splice is the mutator when the
\* array is observed.
SpliceAt(s, kind, o, pos, items) ==
    LET es == s.heap[o].elems
        padded == IF kind = "set" /\ pos > Len(es)
                  THEN es \o [i \in 1..(pos - Len(es)) |-> Undef] ELSE es
        call == [m |-> "splice", start |-> pos, del |-> 1, items |-> items]
        val == IF items = <<>> THEN Undef ELSE items[1]
        s1 == [s EXCEPT !.heap[o].elems = padded]
    IN  IF s.heap[o].ob
        THEN mutator(SetFrame(s1, kind, o, "", val, TRUE), o, call)
        ELSE SetFrame([s1 EXCEPT !.heap[o].elems = Native(@, call)],
                      kind, o, "", val, FALSE)

\* whether an assignment of val to the reactive property p notifies
Changes(p, val) ==
    p.rx /\ ~(StrictEq(val, p.val) \/ (val.t = "nan" /\ p.val.t = "nan"))

\* set without the test for a component instance or root data
set_IgnoresOwners(s, o, key, val) ==
    LET h == s.heap[o]
    IN  IF h.arr THEN SpliceAt(s, "set", o, key, <<val>>)
        ELSE IF h.props[key].own
        THEN reactiveSetter(SetFrame(s, "set", o, key, val,
                                     Changes(h.props[key], val)), o, key, val)
        ELSE IF ~h.ext THEN [s EXCEPT !.exc = TRUE]
        ELSE IF ~h.ob
        THEN SetFrame([s EXCEPT !.heap[o].props[key] = PlainProp(val)],
                      "set", o, key, val, FALSE)
        ELSE notify(SetFrame(defineReactive(s, o, key, val),
                             "set", o, key, val, TRUE), h.dep)

\* set(target, key, val) up to the loop of a notify().  For an array target
\* the key is a valid index; a key of an object is one of Keys.  An
\* assignment or defineProperty that adds a key to an object that is not
\* extensible throws.
set(s, o, key, val) ==
    LET h == s.heap[o]
    IN  IF h.arr THEN SpliceAt(s, "set", o, key, <<val>>)
        ELSE IF h.props[key].own
        THEN reactiveSetter(SetFrame(s, "set", o, key, val,
                                     Changes(h.props[key], val)), o, key, val)
        ELSE IF h.isVue \/ (h.ob /\ h.vmCount # 0)
        THEN SetFrame(s, "set", o, key, val, FALSE)
        ELSE IF ~h.ext THEN [s EXCEPT !.exc = TRUE]
        ELSE IF ~h.ob
        THEN SetFrame([s EXCEPT !.heap[o].props[key] = PlainProp(val)],
                      "set", o, key, val, FALSE)
        ELSE notify(SetFrame(defineReactive(s, o, key, val),
                             "set", o, key, val, TRUE), h.dep)

\* del without the test of hasOwn(target, key)
del_NoOwnTest(s, o, key) ==
    LET h == s.heap[o]
    IN  IF h.arr THEN SpliceAt(s, "del", o, key, <<>>)
        ELSE IF h.isVue \/ (h.ob /\ h.vmCount # 0)
        THEN SetFrame(s, "del", o, key, Undef, FALSE)
        ELSE IF h.frozen THEN [s EXCEPT !.exc = TRUE]
        ELSE LET s1 == [s EXCEPT !.heap[o].props[key] = NoProp]
             IN  IF ~h.ob THEN SetFrame(s1, "del", o, key, Undef, FALSE)
                 ELSE notify(SetFrame(s1, "del", o, key, Undef, TRUE), h.dep)

\* del(target, key) up to the loop of a notify().  delete throws on a frozen
\* object.
del(s, o, key) ==
    LET h == s.heap[o]
    IN  IF h.arr THEN SpliceAt(s, "del", o, key, <<>>)
        ELSE IF h.isVue \/ (h.ob /\ h.vmCount # 0)
        THEN SetFrame(s, "del", o, key, Undef, FALSE)
        ELSE IF ~h.props[key].own THEN SetFrame(s, "del", o, key, Undef, FALSE)
        ELSE IF h.frozen THEN [s EXCEPT !.exc = TRUE]
        ELSE LET s1 == [s EXCEPT !.heap[o].props[key] = NoProp]
             IN  IF ~h.ob THEN SetFrame(s1, "del", o, key, Undef, FALSE)
                 ELSE notify(SetFrame(s1, "del", o, key, Undef, TRUE), h.dep)

\* the return of set (val) and of del (undefined)
SetStep(s) ==
    LET f == Top(s)
    IN  IF s.exc THEN Pop(s)
        ELSE [Pop(s) EXCEPT !.ret = f.acc,
                            !.ev = [NoEv EXCEPT !.t = f.k, !.d = f.d,
                                                !.k = f.code, !.v = f.acc,
                                                !.c = f.c, !.done = f.done]]

\* vm._computedWatchers[key]: the lazy Watcher of the computed property, 0 if none
Computed(s) ==
    IF \E w \in 1..Len(s.watchers) : s.watchers[w].lazy
    THEN CHOOSE w \in 1..Len(s.watchers) : s.watchers[w].lazy
    ELSE 0

\* computedGetter without `if (Dep.target) watcher.depend()'
ComputedReturn_NoDepend(s, w) == [s EXCEPT !.ret = s.watchers[w].value]

\* computedGetter from `if (Dep.target) watcher.depend()' on
ComputedReturn(s, w) ==
    LET s1 == IF Target(s) # 0 THEN WatcherDepend(s, w) ELSE s
    IN  [s1 EXCEPT !.ret = s1.watchers[w].value]

\* a computedGetter that evaluates at every read
computedGetter_AlwaysEvaluates(s) ==
    LET w == Computed(s)
    IN  IF w = 0 THEN [s EXCEPT !.ret = Undef]
        ELSE Get(Push(s, Frame("computed", w)), w)

\* computedGetter up to the call of get() in evaluate()
computedGetter(s) ==
    LET w == Computed(s)
    IN  IF w = 0 THEN [s EXCEPT !.ret = Undef]
        ELSE IF s.watchers[w].dirty THEN Get(Push(s, Frame("computed", w)), w)
        ELSE ComputedReturn(s, w)

\* evaluate() after get() returned: this.value = ...; this.dirty = false;
\* then the rest of computedGetter
ComputedStep(s) ==
    LET w == Top(s).w
    IN  IF s.exc THEN Ev(Pop(s), NoEv)
        ELSE ComputedReturn(
                 Ev([Pop(s) EXCEPT !.watchers[w].value = s.ret,
                                   !.watchers[w].dirty = FALSE],
                    [NoEv EXCEPT !.t = "evaluated", !.w = w]), w)

\* the end of the main pass: the flush returns when no post-flush callback
\* is registered, and goes on to drain a copy of their list otherwise.
\* History: the frame's at is the order in which they were registered.
EndOfPass(s) ==
    IF s.postFlush = <<>> THEN Pop(s)
    ELSE [SetTop(s, [Top(s) EXCEPT !.pc = 3, !.snap = s.postFlush, !.i = 1,
                                   !.at = s.hist.post, !.done = <<>>])
             EXCEPT !.postFlush = <<>>, !.hist.post = <<>>]

\* one turn of the drain of the post-flush callbacks
PostFlushStep(s) ==
    LET f == Top(s)
    IN  IF f.i > Len(f.snap)
        THEN Ev(Pop(s), [NoEv EXCEPT !.t = "postflushed", !.snap = f.at,
                                     !.done = f.done])
        ELSE Push(SetTop(s, [f EXCEPT !.i = @ + 1, !.done = Append(@, f.snap[f.i])]),
                  [Frame("script", 0) EXCEPT !.code = f.snap[f.i]])

\* a flush without the iteration cap
FlushStep_NoCap(s) ==
    LET f == Top(s)
    IN  IF s.exc THEN Ev(Pop(s), NoEv)
        ELSE IF f.pc = 3 THEN PostFlushStep(s)
        ELSE IF f.pc = 1
        THEN IF s.index > Len(s.queue)
             THEN Ev([EndOfPass(s) EXCEPT !.queue = <<>>, !.has = {}, !.circular = <<>>,
                                    !.waiting = FALSE, !.flushing = FALSE,
                                    !.index = 0],
                     [NoEv EXCEPT !.t = "flushed", !.snap = s.queue])
             ELSE LET w == s.queue[s.index]
                      s1 == SetTop(s, [f EXCEPT !.pc = 2])
                      s2 == [s1 EXCEPT !.has = @ \ {IdOf(s, w)}]
                  IN  Run(s2, w)
        ELSE [SetTop(s, [f EXCEPT !.pc = 1]) EXCEPT !.index = @ + 1, !.ev = NoEv]

\* a flush that leaves the queued mark set while run() is called
FlushStep_KeepsMark(s) ==
    LET f == Top(s)
    IN  IF s.exc THEN Ev(Pop(s), NoEv)
        ELSE IF f.pc = 3 THEN PostFlushStep(s)
        ELSE IF f.pc = 1
        THEN IF s.index > Len(s.queue)
             THEN Ev([EndOfPass(s) EXCEPT !.queue = <<>>, !.has = {}, !.circular = <<>>,
                                    !.waiting = FALSE, !.flushing = FALSE,
                                    !.index = 0],
                     [NoEv EXCEPT !.t = "flushed", !.snap = s.queue])
             ELSE Run(SetTop(s, [f EXCEPT !.pc = 2]), s.queue[s.index])
        ELSE [Ev(SetTop(s, [f EXCEPT !.pc = 1]), NoEv) EXCEPT !.index = @ + 1]

\* a flush that leaves the flag of the scheduled flush set when it ends
FlushStep_KeepsWaiting(s) ==
    LET f == Top(s)
    IN  IF s.exc THEN Ev(Pop(s), NoEv)
        ELSE IF f.pc = 3 THEN PostFlushStep(s)
        ELSE IF f.pc = 1
        THEN IF s.index > Len(s.queue)
             THEN Ev([EndOfPass(s) EXCEPT !.queue = <<>>, !.has = {},
                                          !.circular = <<>>, !.flushing = FALSE,
                                          !.index = 0],
                     [NoEv EXCEPT !.t = "flushed", !.snap = s.queue])
             ELSE LET w == s.queue[s.index]
                      s1 == SetTop(s, [f EXCEPT !.pc = 2])
                      s2 == [s1 EXCEPT !.has = @ \ {IdOf(s, w)}]
                  IN  Run(s2, w)
        ELSE LET w == s.queue[s.index]
                 s1 == SetTop(s, [f EXCEPT !.pc = 1])
                 again == IdOf(s, w) \in s.has
                 n == Count(s.circular, IdOf(s, w)) + 1
                 s2 == IF again THEN [s1 EXCEPT !.circular = Append(@, IdOf(s, w))]
                       ELSE s1
                 tail == SubSeq(s.queue, s.index + 1, Len(s.queue))
                 s3 == IF again /\ n > MaxUpdateCount
                       THEN [s2 EXCEPT !.queue = SubSeq(s.queue, 1, s.index)
                                                 \o Remove(tail, w),
                                       !.hist.circ = Append(@, w),
                                       !.ev = [NoEv EXCEPT !.t = "circular", !.w = w,
                                                           !.err = TRUE]]
                       ELSE Ev(s2, NoEv)
             IN  [s3 EXCEPT !.index = @ + 1]

\* one turn of the loop of flushSchedulerQueue, in two halves: has[id] = null;
\* watcher.run(), and, when run() has returned, the circular-update check
FlushStep(s) ==
    LET f == Top(s)
    IN  IF s.exc THEN Ev(Pop(s), NoEv)
        ELSE IF f.pc = 3 THEN PostFlushStep(s)
        ELSE IF f.pc = 1
        THEN IF s.index > Len(s.queue)
             THEN Ev([EndOfPass(s) EXCEPT !.queue = <<>>, !.has = {},
                                          !.circular = <<>>,
                                          !.waiting = FALSE, !.flushing = FALSE,
                                          !.index = 0],
                     [NoEv EXCEPT !.t = "flushed", !.snap = s.queue])
             ELSE LET w == s.queue[s.index]
                      s1 == SetTop(s, [f EXCEPT !.pc = 2])
                      s2 == [s1 EXCEPT !.has = @ \ {IdOf(s, w)}]
                  IN  Run(s2, w)
        ELSE LET w == s.queue[s.index]
                 s1 == SetTop(s, [f EXCEPT !.pc = 1])
                 again == IdOf(s, w) \in s.has
                 n == Count(s.circular, IdOf(s, w)) + 1
                 s2 == IF again THEN [s1 EXCEPT !.circular = Append(@, IdOf(s, w))]
                       ELSE s1
                 tail == SubSeq(s.queue, s.index + 1, Len(s.queue))
                 s3 == IF again /\ n > MaxUpdateCount
                       THEN [s2 EXCEPT !.queue = SubSeq(s.queue, 1, s.index)
                                                 \o Remove(tail, w),
                                       !.hist.circ = Append(@, w),
                                       !.ev = [NoEv EXCEPT !.t = "circular", !.w = w,
                                                           !.err = TRUE]]
                       ELSE Ev(s2, NoEv)
             IN  [s3 EXCEPT !.index = @ + 1]

\* a loop of flushCallbacks over callbacks that nextTick has not wrapped in
\* try/catch: the exception of a callback leaves flushCallbacks
DrainStep_Unwrapped(s) ==
    LET f == Top(s)
    IN  IF s.exc THEN Pop(s)
        ELSE IF f.i > Len(f.snap)
        THEN IF s.hist.log THEN Ev(Pop(s), [NoEv EXCEPT !.t = "drained"])
             ELSE Pop(s)
        ELSE LET s1 == Invoked(SetTop(s, [f EXCEPT !.i = @ + 1]), f.snap[f.i])
             IN  IF f.snap[f.i] = "flush" THEN flushSchedulerQueue(s1)
                 ELSE Push(s1, [Frame("script", 0) EXCEPT !.code = f.snap[f.i]])

\* one turn of the loop of flushCallbacks: copies[i](), each wrapped by
\* nextTick in try/catch
DrainStep(s) ==
    LET f == Top(s)
        s0 == IF s.exc THEN Ev([s EXCEPT !.exc = FALSE],
                               [NoEv EXCEPT !.t = "tick", !.err = TRUE])
              ELSE Ev(s, NoEv)
    IN  IF f.i > Len(f.snap)
        THEN IF s.hist.log THEN Ev(Pop(s0), [NoEv EXCEPT !.t = "drained"])
             ELSE Pop(s0)
        ELSE LET s1 == Invoked(SetTop(s0, [f EXCEPT !.i = @ + 1]), f.snap[f.i])
             IN  IF f.snap[f.i] = "flush" THEN flushSchedulerQueue(s1)
                 ELSE Push(s1, [Frame("script", 0) EXCEPT !.code = f.snap[f.i]])

\* one instruction of an evaluation function or a callback
ScriptStep(s) ==
    LET f == Top(s)
        code == Code(f.code)
    IN  IF s.exc THEN Pop(s)
        ELSE IF f.wait THEN SetTop(s, [f EXCEPT !.acc = s.ret, !.wait = FALSE])
        ELSE IF f.pc > Len(code) THEN [Pop(s) EXCEPT !.ret = f.acc]
        ELSE LET ins == code[f.pc]
                 f1 == [f EXCEPT !.pc = @ + 1]
                 s1 == SetTop(s, f1)
             IN  IF (ins.cnd = "t" /\ ~f.c) \/ (ins.cnd = "f" /\ f.c) THEN s1
                 ELSE CASE ins.op = "rd" ->
                             SetTop(reactiveGetter(s1, ins.o, ins.k),
                                    [f1 EXCEPT !.acc = ValueAt(s, ins.o, ins.k)])
                        [] ins.op = "rdacc" ->
                             IF f.acc.t = "undef" THEN [s1 EXCEPT !.exc = TRUE]
                             ELSE IF ~IsObject(f.acc)
                             THEN SetTop(s1, [f1 EXCEPT !.acc = Undef])
                             ELSE SetTop(reactiveGetter(s1, f.acc.n, ins.k),
                                         [f1 EXCEPT !.acc = ValueAt(s, f.acc.n, ins.k)])
                        [] ins.op = "tst" -> SetTop(s1, [f1 EXCEPT !.c = Truthy(f.acc)])
                        [] ins.op = "wr" -> reactiveSetter(s1, ins.o, ins.k, ins.v)
                        [] ins.op = "rdc" ->
                             computedGetter(SetTop(s1, [f1 EXCEPT !.wait = TRUE]))
                        [] ins.op = "td" ->
                             LET w == IF ins.o = 0 THEN f.w ELSE ins.o
                             IN  IF w \in 1..Len(s.watchers)
                                 THEN teardown(s1, w) ELSE s1
                        [] ins.op = "throw" -> [s1 EXCEPT !.exc = TRUE]
                        [] ins.op = "nt" -> nextTick(s1, ins.k)
                        [] ins.op = "pf" -> queuePostFlush(s1, ins.k)
                        [] OTHER -> s1

\* ids handed out downwards
NextWatcherId_Descending(s) == MaxWatchers + 1 - Len(s.watchers)

\* the Watcher constructor: options, id = ++uid, active, dirty = lazy, empty
\* dependency lists; value = lazy ? undefined : get()
NextWatcherId(s) == Len(s.watchers) + 1

NewWatcher(s, kind) ==
    LET w == Len(s.watchers) + 1
        rec == [id |-> NextWatcherId(s), lazy |-> kind.lazy, sync |-> kind.sync,
                deep |-> kind.deep, user |-> kind.user, active |-> TRUE,
                dirty |-> kind.lazy, value |-> Undef, deps |-> <<>>,
                newDeps |-> <<>>, depIds |-> {}, newDepIds |-> {},
                g |-> kind.g, cb |-> kind.cb]
        s1 == [s EXCEPT !.watchers = Append(@, rec), !.vmWatchers = Append(@, w)]
    IN  IF kind.lazy THEN s1 ELSE Get(Push(s1, Frame("ctor", w)), w)

\* the constructor after get() returned: this.value = ...
CtorStep(s) ==
    IF s.exc THEN Pop(s)
    ELSE [Pop(s) EXCEPT !.watchers[Top(s).w].value = s.ret]

(***************************************************************************)
(* instance/state.js initProps with util/props.js validateProp, and        *)
(* instance/inject.js initInjections.  The options of a prop are what the  *)
(* component declares for it: a default factory, which is application code *)
(* and may throw, and a validator, likewise.  propsData is what the props  *)
(* object holds before initProps: a prop the parent did not pass is absent.*)
(***************************************************************************)
NoOpt == [declared |-> FALSE, def |-> "none", defval |-> Undef, validator |-> "none"]

Declared(def, defval, validator) ==
    [declared |-> TRUE, def |-> def, defval |-> defval, validator |-> validator]

\* the object a default factory returns
Fresh == 4

PropsOptions(name) ==
    [k \in Keys |->
        CASE name = "plain" /\ k \in {"b", "o"} -> Declared("none", Undef, "none")
          [] name = "factory" /\ k = "b" -> Declared("none", Undef, "ok")
          [] name = "factory" /\ k = "o" -> Declared("factory", Ref(Fresh), "ok")
          [] name = "factoryThrows" /\ k = "b" -> Declared("none", Undef, "none")
          [] name = "factoryThrows" /\ k = "o" -> Declared("throws", Undef, "none")
          [] name = "validatorThrows" /\ k = "b" -> Declared("none", Undef, "throws")
          [] name = "validatorThrows" /\ k = "o" -> Declared("none", Undef, "none")
          [] OTHER -> NoOpt]

\* validateProp(key, propOptions, propsData, vm), without the casting to
\* boolean (no prop here has the type Boolean): the default value when none
\* was passed, observed with the switch forced on and then restored;
\* assertProp calls the validator on a value that is not null
validateProp(s, o, k, opt) ==
    LET p == s.heap[o].props[k]
        passed == IF p.own THEN p.val ELSE Undef
    IN  IF passed = Undef /\ opt.def = "throws" THEN [s EXCEPT !.exc = TRUE]
        ELSE LET value == IF passed = Undef THEN opt.defval ELSE passed
                 s1 == IF passed = Undef
                       THEN [observe([s EXCEPT !.shouldObserve = TRUE], value, FALSE)
                                EXCEPT !.shouldObserve = s.shouldObserve]
                       ELSE s
             IN  IF value # Undef /\ opt.validator = "throws"
                 THEN [s1 EXCEPT !.exc = TRUE]
                 ELSE [s1 EXCEPT !.ret = value]

\* initProps(vm, propsOptions) up to its loop
initPropsCall(s, o, isRoot, name) ==
    Push(IF isRoot THEN s ELSE [s EXCEPT !.shouldObserve = FALSE],
         [Frame("initProps", 0) EXCEPT !.d = o, !.c = isRoot, !.code = name])

\* the loop of initProps: validateProp, then defineReactive with the
\* customSetter of the development build; toggleObserving(true) after the
\* loop.  An exception leaves through every statement.
InitPropsStep(s) ==
    LET f == Top(s)
    IN  IF s.exc
        THEN Ev(Pop(s), [NoEv EXCEPT !.t = "initProps", !.d = f.d, !.err = TRUE])
        ELSE IF f.i > Len(KeyOrder)
        THEN Ev([Pop(s) EXCEPT !.shouldObserve = TRUE],
                [NoEv EXCEPT !.t = "initProps", !.d = f.d])
        ELSE LET k == KeyOrder[f.i]
                 opt == PropsOptions(f.code)[k]
             IN  IF ~opt.declared THEN SetTop(s, [f EXCEPT !.i = @ + 1])
                 ELSE IF f.pc = 1
                 THEN LET s1 == validateProp(s, f.d, k, opt)
                      IN  Ev(SetTop(s1, [f EXCEPT !.pc = 2, !.acc = s1.ret]),
                             [NoEv EXCEPT !.t = "validated", !.d = f.d, !.k = k,
                                          !.c = s.shouldObserve, !.err = s1.exc])
                 ELSE LET s1 == defineReactive(s, f.d, k, f.acc)
                      IN  SetTop([s1 EXCEPT !.heap[f.d].props[k].customSetter = TRUE],
                                 [f EXCEPT !.pc = 1, !.i = @ + 1])

\* initInjections(vm) for inject: ['a']: resolveInject finds nothing, finds
\* the provided value, or calls a default factory that throws
initInjections(s, vm, inj) ==
    IF inj.t = "none" THEN s
    ELSE IF inj.t = "throws" THEN [s EXCEPT !.exc = TRUE]
    ELSE LET s1 == defineReactive([s EXCEPT !.shouldObserve = FALSE], vm, "a", inj.v)
         IN  [s1 EXCEPT !.heap[vm].props["a"].customSetter = TRUE,
                        !.shouldObserve = TRUE]

(***************************************************************************)
(* StepOf is the next step of the top frame.  A handler runs on, step      *)
(* after step, until it has completed one of the calls recorded in ev or   *)
(* has returned to the event loop.                                         *)
(***************************************************************************)
StepOf(s) ==
    LET k == Top(s).k
    IN  CASE k = "script" -> ScriptStep(s)
          [] k = "get" -> GetFinish(s)
          [] k = "run" -> RunStep(s)
          [] k = "ctor" -> CtorStep(s)
          [] k = "notify" -> NotifyStep(s)
          [] k = "computed" -> ComputedStep(s)
          [] k = "flush" -> FlushStep(s)
          [] k = "drain" -> DrainStep(s)
          [] k \in {"set", "del"} -> SetStep(s)
          [] k = "initProps" -> InitPropsStep(s)

RECURSIVE Settle(_)
Settle(s) ==
    IF s.stack = <<>> \/ s.ev.t # "none" THEN s ELSE Settle(StepOf(s))

(***************************************************************************)
(* The Watchers the program creates: the render Watcher (no options, its   *)
(* callback a noop), the computed Watcher of initComputed ({lazy: true},   *)
(* callback noop) and the Watchers of vm.$watch (user, with the caller's   *)
(* sync and deep).                                                         *)
(***************************************************************************)
Render(g) ==
    [lazy |-> FALSE, sync |-> FALSE, deep |-> FALSE, user |-> FALSE, g |-> g,
     cb |-> ""]

ComputedKind(g) ==
    [lazy |-> TRUE, sync |-> FALSE, deep |-> FALSE, user |-> FALSE, g |-> g,
     cb |-> ""]

Watch(g, cb, sync, deep) ==
    [lazy |-> FALSE, sync |-> sync, deep |-> deep, user |-> TRUE, g |-> g,
     cb |-> cb]

(***************************************************************************)
(* The operations of the environment.  Application code and the host's     *)
(* timer act between handlers, that is when the call stack is empty.       *)
(***************************************************************************)
Idle == stack = <<>> /\ ev.t = "none"

\* the longest array
MaxLen == 2

\* the components that share one data object
MaxOwners == 2

\* the writes counted per Watcher and batch
MaxWrites == 3

\* the callbacks application code leaves pending
MaxPending == 3

\* the Deps beyond which set creates no further one
MaxDeps == 7

NoHist ==
    [batch |-> {}, runlog |-> <<>>, requeued |-> {}, order |-> <<>>,
     fired |-> {}, circ |-> <<>>, warned |-> {}, log |-> FALSE,
     reg |-> <<>>, ran |-> <<>>, mark |-> 0, post |-> <<>>,
     nw |-> [w \in 1..MaxWatchers |-> 0], runs |-> FALSE,
     lastv |-> [w \in 1..MaxWatchers |-> Undef],
     lastrd |-> [w \in 1..MaxWatchers |-> {}]]

\* the state a step starts from: the event of the step before is forgotten,
\* with a completed flush the history of that flush, and with a completed
\* drain the callbacks it has run.  An exception that
\* has left the last frame has ended its handler: the next one starts clean.
Begin ==
    [Cur EXCEPT !.ev = NoEv,
                !.exc = IF stack = <<>> THEN FALSE ELSE @,
                !.hist =
                    IF ev.t = "flushed"
                    THEN [NoHist EXCEPT !.log = hist.log, !.reg = hist.reg,
                                        !.ran = hist.ran, !.mark = hist.mark,
                                        !.post = hist.post,
                                        !.runs = hist.runs,
                                        !.lastv = hist.lastv,
                                        !.lastrd = hist.lastrd]
                    ELSE IF ev.t = "drained"
                    THEN [@ EXCEPT !.reg = SubSeq(@, Len(hist.ran) + 1, Len(@)),
                                   !.ran = <<>>, !.mark = 0]
                    ELSE @]

\* new Watcher(...): initComputed, vm.$watch or the mount of a component
Construct(kinds) ==
    /\ Idle
    /\ Len(watchers) < MaxWatchers
    /\ \E kind \in kinds :
          /\ kind.lazy => Computed(Cur) = 0
          /\ Commit(Settle(NewWatcher(Begin, kind)))

\* history: one more write, in this batch, to a dependency of each Watcher
\* that the notify() in progress is about to update
CountWrite(s) ==
    IF s.stack = <<>> THEN s
    ELSE [s EXCEPT !.hist.nw =
             [w \in 1..MaxWatchers |->
                 IF w \in SeqSet(Top(s).snap) /\ @[w] < MaxWrites
                 THEN @[w] + 1 ELSE @[w]]]

\* history: a write that has returned and left the state as it was
NoteSame(s, x) ==
    IF s = Begin
    THEN Ev(s, [NoEv EXCEPT !.t = "same", !.v = x[3],
                            !.d = heap[x[1]].props[x[2]].dep])
    ELSE s

\* the write x = <<obj, key, v>>
WriteOf(x, counted) ==
    LET s == reactiveSetter(Begin, x[1], x[2], x[3])
    IN  Commit(Settle(IF counted THEN NoteSame(CountWrite(s), x) ELSE s))

\* obj[key] = v in application code
Assign(writes, counted) ==
    /\ Idle
    /\ \E x \in writes : WriteOf(x, counted)

\* vm.o[method](...) in application code, vm.o an observed array
Mutate(calls) ==
    /\ Idle
    /\ IsObject(heap[Root].props["o"].val)
    /\ LET o == heap[Root].props["o"].val.n
       IN  /\ heap[o].arr
           /\ heap[o].ob
           /\ \E call \in calls :
                 /\ Len(heap[o].elems) + Len(call.items) <= MaxLen
                 /\ Commit(Settle(mutator(Begin, o, call)))

\* the read x = <<obj, key>>
ReadOf(x) ==
    Commit(Ev(reactiveGetter(Begin, x[1], x[2]),
              [NoEv EXCEPT !.t = "read", !.v = ValueAt(Cur, x[1], x[2]),
                           !.d = heap[x[1]].props[x[2]].dep]))

\* obj[key] read in application code, outside any evaluation
Read(reads) ==
    /\ Idle
    /\ \E x \in reads : ReadOf(x)

\* the call x = <<target, key, val>> of set
SetOf(x) == Commit(Settle(set(Begin, x[1], x[2], x[3])))

\* Vue.set(target, key, val), vm.$set in application code
Set(calls) ==
    /\ Idle
    /\ Len(subs) < MaxDeps
    /\ \E x \in calls : SetOf(x)

\* the call x = <<target, key>> of del
DelOf(x) == Commit(Settle(del(Begin, x[1], x[2])))

\* Vue.delete(target, key), vm.$delete in application code
Delete(calls) ==
    /\ Idle
    /\ \E x \in calls : DelOf(x)

\* Vue.observable(obj) in application code
Observable(objs) ==
    /\ Idle
    /\ \E o \in objs :
          Commit(Ev(observe(Begin, Ref(o), FALSE),
                    [NoEv EXCEPT !.t = "observed", !.v = Ref(o)]))

\* observe(value, asRootData) from outside: initData of a further component
\* over the same data object (a plain object, or initData replaces it), or
\* Vue.observable
ObserveValue ==
    /\ Idle
    /\ \E o \in DOMAIN heap, asRootData \in BOOLEAN :
          /\ asRootData => ~heap[o].arr /\ heap[o].vmCount < MaxOwners
          /\ Commit(Ev(observe(Begin, Ref(o), asRootData),
                       [NoEv EXCEPT !.t = "observed", !.v = Ref(o),
                                    !.c = asRootData]))

\* initState of a component whose vm._props is object o: initProps
InitPropsCall(objs, names) ==
    /\ Idle
    /\ Len(subs) < MaxDeps
    /\ \E o \in objs : \E isRoot \in BOOLEAN : \E name \in names :
          /\ \A k \in Keys : ~heap[o].props[k].rx
          /\ Commit(Settle(initPropsCall(Begin, o, isRoot, name)))

\* initInjections of the component instance vm
InitInjectionsCall(vm, injs) ==
    /\ Idle
    /\ Len(subs) < MaxDeps
    /\ ~heap[vm].props["a"].own
    /\ \E inj \in injs :
          LET s == initInjections(Begin, vm, inj)
          IN  Commit(Ev(s, [NoEv EXCEPT !.t = "initInjections", !.d = vm,
                                        !.err = s.exc]))

\* toggleObserving(value)
ToggleObserving ==
    /\ Idle
    /\ Commit([Begin EXCEPT !.shouldObserve = ~@])

\* the call of teardown() on Watcher w
TeardownOf(w) ==
    Commit(Ev(teardown(Begin, w),
              [NoEv EXCEPT !.t = "teardown", !.w = w, !.c = watchers[w].active]))

\* watcher.teardown(), as vm.$destroy and the unwatch function call it, on
\* any Watcher created so far
Teardown ==
    /\ Idle
    /\ \E w \in 1..Len(watchers) : TeardownOf(w)

\* the unwatch function vm.$watch returned, or watcher.teardown()
Unwatch ==
    /\ Idle
    /\ \E w \in 1..Len(watchers) :
          Commit(teardown(Begin, w))

\* a read of the computed property outside any evaluation
ReadComputed ==
    /\ Idle
    /\ Computed(Cur) # 0
    /\ Commit(Settle(computedGetter(Begin)))

\* nextTick(cb), vm.$nextTick(cb) in application code
NextTickCall(cbs) ==
    /\ Idle
    /\ Len(callbacks) < MaxPending
    /\ \E cb \in cbs : Commit(nextTick(Begin, cb))

\* the host runs a flushCallbacks task
Tick ==
    /\ Idle
    /\ timers > 0
    /\ Commit(Settle(flushCallbacks([Begin EXCEPT !.timers = @ - 1])))

(***************************************************************************)
(* The handler in progress moves on from its top frame.                    *)
(***************************************************************************)
\* the handler in progress takes its next steps
Resume == stack # <<>> /\ Commit(Settle(StepOf(Begin)))

\* the handler has returned to the event loop
Return == stack = <<>> /\ ev.t # "none" /\ Commit(Begin)

Step ==
    \/ Resume
    \/ Return

(***************************************************************************)
(* The initial state: no Watcher yet, nothing queued, and a heap that      *)
(* initData has observed as root data.                                     *)
(***************************************************************************)

Blank(h) ==
    [heap |-> h, subs |-> <<>>, watchers |-> <<>>, vmWatchers |-> <<>>,
     targetStack |-> <<>>, shouldObserve |-> TRUE, seenObjects |-> {},
     queue |-> <<>>, has |-> {},
     postFlush |-> <<>>,
     waiting |-> FALSE, flushing |-> FALSE, index |-> 0, circular |-> <<>>,
     callbacks |-> <<>>, pending |-> FALSE, timers |-> 0, stack |-> <<>>,
     ret |-> Undef, exc |-> FALSE, ev |-> NoEv, hist |-> NoHist]

\* initData: observe(data, true)
InitData(h) == observe(Blank(h), Ref(Root), TRUE)

StartFrom(s) ==
    /\ heap = s.heap
    /\ subs = s.subs
    /\ watchers = s.watchers
    /\ vmWatchers = s.vmWatchers
    /\ targetStack = s.targetStack
    /\ shouldObserve = s.shouldObserve
    /\ seenObjects = s.seenObjects
    /\ queue = s.queue
    /\ has = s.has
    /\ postFlush = s.postFlush
    /\ waiting = s.waiting
    /\ flushing = s.flushing
    /\ index = s.index
    /\ circular = s.circular
    /\ callbacks = s.callbacks
    /\ pending = s.pending
    /\ timers = s.timers
    /\ stack = s.stack
    /\ ret = s.ret
    /\ exc = s.exc
    /\ ev = s.ev
    /\ hist = s.hist

(***************************************************************************)
(* Spec: a component whose data is {flag, a, b}, with up to MaxWatchers    *)
(* Watchers over it.                                                       *)
(***************************************************************************)
MaxVal == 2

CoreHeap ==
    [o \in {Root} |->
        PlainObject([NoProps EXCEPT !["flag"] = PlainProp(Num(1)),
                                    !["a"] = PlainProp(Num(1)),
                                    !["b"] = PlainProp(Num(0))])]

CoreKinds ==
    {Render("flag?a:b"), ComputedKind("flag?a:b"),
     Watch("flag&&(flag=0);a", "", TRUE, FALSE),
     Watch("a;unwatch;b", "", FALSE, FALSE),
     Watch("aa", "unwatch2", TRUE, FALSE)}

CoreWrites ==
    {<<Root, "flag", Num(n)>> : n \in 0..1}
    \cup {<<Root, "a", Num(n)>> : n \in 1..MaxVal}
    \cup {<<Root, "b", Num(n)>> : n \in 0..1}

Init == StartFrom(InitData(CoreHeap))

Next ==
    \/ Construct(CoreKinds)
    \/ Assign(CoreWrites, FALSE)
    \/ Unwatch
    \/ ReadComputed
    \/ Tick
    \/ Step

Spec == Init /\ [][Next]_vars

(***************************************************************************)
(* SpecBatch: bursts of writes to a and b between flushes, over Watchers   *)
(* that go through the scheduler; one of them writes b in its callback,    *)
(* that is during the flush.                                               *)
(***************************************************************************)
BatchVal == 3

BatchHeap ==
    [o \in {Root} |->
        PlainObject([NoProps EXCEPT !["a"] = PlainProp(Num(0)),
                                    !["b"] = PlainProp(Num(0))])]

BatchKinds ==
    {Render("a"), Watch("b", "", FALSE, FALSE), Watch("a", "b=1", FALSE, FALSE)}

BatchWrites ==
    {<<Root, "a", Num(n)>> : n \in 0..BatchVal}
    \cup {<<Root, "b", Num(n)>> : n \in 0..1}

InitBatch == StartFrom(InitData(BatchHeap))

NextBatch ==
    \/ Construct(BatchKinds)
    \/ Assign(BatchWrites, TRUE)
    \/ Unwatch
    \/ Tick
    \/ Step

SpecBatch == InitBatch /\ [][NextBatch]_vars

(***************************************************************************)
(* SpecArr: data {o: []} and the array methods called on vm.o with a       *)
(* number, a plain object, an array holding that object and a frozen       *)
(* object; Watchers that read vm.o.                                        *)
(***************************************************************************)
Frozen(h) == [h EXCEPT !.frozen = TRUE, !.ext = FALSE]

ArrHeap ==
    <<PlainObject([NoProps EXCEPT !["o"] = PlainProp(Ref(2))]),
      PlainArray(<<>>),
      PlainObject([NoProps EXCEPT !["n"] = PlainProp(Num(0))]),
      PlainArray(<<Ref(3)>>),
      Frozen(PlainObject([NoProps EXCEPT !["n"] = PlainProp(Num(0))]))>>

ArrItems == {Num(0), Ref(3), Ref(4), Ref(5)}

ArrCalls ==
    {[m |-> m, start |-> 0, del |-> 0, items |-> <<x>>] :
         m \in {"push", "unshift"}, x \in ArrItems}
    \cup {[m |-> "splice", start |-> i, del |-> n, items |-> <<x>>] :
              i \in 0..1, n \in 0..1, x \in ArrItems}
    \cup {[m |-> "splice", start |-> 0, del |-> 1, items |-> <<>>]}
    \cup {[m |-> m, start |-> 0, del |-> 0, items |-> <<>>] :
              m \in {"pop", "shift", "reverse"}}

ArrKinds ==
    {Render("o"), Watch("o", "", TRUE, FALSE), Watch("o", "", FALSE, TRUE)}

InitArr == StartFrom(InitData(ArrHeap))

NextArr ==
    \/ Construct(ArrKinds)
    \/ Mutate(ArrCalls)
    \/ Unwatch
    \/ Tick
    \/ Step

SpecArr == InitArr /\ [][NextArr]_vars

(***************************************************************************)
(* SpecDeep: data {o: {m: {n: 0}}, b: 0}; writes to o.m.n, the property    *)
(* three levels down, and to o.m; Watchers of vm.o, deep and not.          *)
(***************************************************************************)
DeepHeap ==
    <<PlainObject([NoProps EXCEPT !["o"] = PlainProp(Ref(2)),
                                  !["b"] = PlainProp(Num(0))]),
      PlainObject([NoProps EXCEPT !["m"] = PlainProp(Ref(3))]),
      PlainObject([NoProps EXCEPT !["n"] = PlainProp(Num(0))]),
      PlainObject([NoProps EXCEPT !["n"] = PlainProp(Num(0))])>>

DeepKinds ==
    {Watch("o", "", FALSE, TRUE), Watch("o", "", FALSE, FALSE),
     Watch("o", "b=1", TRUE, TRUE), Watch("o", "b=1", TRUE, FALSE)}

DeepWrites ==
    {<<o, "n", Num(n)>> : o \in 3..4, n \in 0..MaxVal}
    \cup {<<2, "m", Ref(o)>> : o \in 3..4}
    \cup {<<Root, "b", Num(0)>>}

InitDeep == StartFrom(InitData(DeepHeap))

NextDeep ==
    \/ Construct(DeepKinds)
    \/ Assign(DeepWrites, FALSE)
    \/ Unwatch
    \/ Tick
    \/ Step

SpecDeep == InitDeep /\ [][NextDeep]_vars

(***************************************************************************)
(* SpecTrav: deep Watchers of vm.o over object graphs with shared and      *)
(* self-referencing containers: a cycle of observed objects, a diamond of  *)
(* observed objects, and an object made non-extensible (which observe()    *)
(* skips and Object.isFrozen does not report) that refers to itself.       *)
(* Writes to o.m make and break cycles.                                    *)
(***************************************************************************)
NotExtensible(h) == [h EXCEPT !.ext = FALSE]

TravLeaf == PlainObject([NoProps EXCEPT !["a"] = PlainProp(Num(0))])

TravHeaps ==
    {<<PlainObject([NoProps EXCEPT !["o"] = PlainProp(Ref(2))]),
       PlainObject([NoProps EXCEPT !["m"] = PlainProp(Ref(3))]),
       PlainObject([NoProps EXCEPT !["a"] = PlainProp(Num(0)),
                                   !["m"] = PlainProp(Ref(2))])>>,
     <<PlainObject([NoProps EXCEPT !["o"] = PlainProp(Ref(2))]),
       PlainObject([NoProps EXCEPT !["m"] = PlainProp(Ref(3)),
                                   !["n"] = PlainProp(Ref(3))]),
       TravLeaf>>,
     <<PlainObject([NoProps EXCEPT !["o"] = PlainProp(Ref(2)),
                                   !["a"] = PlainProp(Num(0))]),
       NotExtensible(PlainObject([NoProps EXCEPT !["m"] = PlainProp(Ref(2))])),
       TravLeaf>>}

TravKinds ==
    {Watch("o", "", FALSE, TRUE), Watch("o", "", TRUE, TRUE), Render("o")}

TravWrites ==
    {<<3, "a", Num(n)>> : n \in 0..1}
    \cup {<<2, "m", Ref(o)>> : o \in 2..3}

TravReads == {<<Root, "o">>, <<Root, "a">>, <<2, "m">>, <<3, "a">>}

InitTrav == \E h \in TravHeaps : StartFrom(InitData(h))

NextTrav ==
    \/ Construct(TravKinds)
    \/ Assign(TravWrites, FALSE)
    \/ Read(TravReads)
    \/ Unwatch
    \/ Tick
    \/ Step

SpecTrav == InitTrav /\ [][NextTrav]_vars

(***************************************************************************)
(* SpecObs: data {o: {m: {n: 0}}} and an array outside it; observe() is    *)
(* called on any of them, as root data or not, with the should-observe     *)
(* switch on or off; vm.o is assigned the object and the array.            *)
(***************************************************************************)
ObsHeap ==
    <<PlainObject([NoProps EXCEPT !["o"] = PlainProp(Ref(2))]),
      PlainObject([NoProps EXCEPT !["m"] = PlainProp(Ref(3))]),
      PlainObject([NoProps EXCEPT !["n"] = PlainProp(Num(0))]),
      PlainArray(<<Ref(3)>>)>>

ObsKinds == {Render("o"), Watch("o", "", TRUE, TRUE)}

ObsWrites == {<<Root, "o", Ref(o)>> : o \in {2, 4}}

InitObs == StartFrom(InitData(ObsHeap))

NextObs ==
    \/ Construct(ObsKinds)
    \/ Assign(ObsWrites, FALSE)
    \/ ObserveValue
    \/ ToggleObserving
    \/ Step

SpecObs == InitObs /\ [][NextObs]_vars

(***************************************************************************)
(* SpecWrite: data {a: NaN, o: {n: 0}}; a and o are written values they    *)
(* hold already and other ones; a computed property, sync and queued       *)
(* Watchers read them.                                                     *)
(***************************************************************************)
WriteHeap ==
    <<PlainObject([NoProps EXCEPT !["a"] = PlainProp(NaN),
                                  !["o"] = PlainProp(Ref(2))]),
      PlainObject([NoProps EXCEPT !["n"] = PlainProp(Num(0))]),
      PlainObject([NoProps EXCEPT !["n"] = PlainProp(Num(0))])>>

WriteKinds ==
    {ComputedKind("a"), Watch("a", "", TRUE, FALSE), Render("o"),
     Watch("o", "", TRUE, TRUE)}

WriteWrites ==
    {<<Root, "a", v>> : v \in {NaN, Num(0)}}
    \cup {<<Root, "o", Ref(o)>> : o \in 2..3}

InitWrite == StartFrom(InitData(WriteHeap))

NextWrite ==
    \/ Construct(WriteKinds)
    \/ Assign(WriteWrites, TRUE)
    \/ Unwatch
    \/ ReadComputed
    \/ Tick
    \/ Step

SpecWrite == InitWrite /\ [][NextWrite]_vars

(***************************************************************************)
(* SpecErr: Watchers of vm.$watch whose evaluation function or callback    *)
(* throws, beside Watchers that do not throw, over writes to a.            *)
(***************************************************************************)
ErrHeap ==
    [o \in {Root} |->
        PlainObject([NoProps EXCEPT !["a"] = PlainProp(Num(0)),
                                    !["b"] = PlainProp(Num(0))])]

ErrKinds ==
    {Watch("a;throw", "", FALSE, FALSE), Watch("a", "throw", FALSE, FALSE),
     Watch("a", "throw", TRUE, FALSE), Watch("a", "b=1", FALSE, FALSE),
     Render("a")}

ErrWrites == {<<Root, "a", Num(n)>> : n \in 0..MaxVal}

InitErr == StartFrom(InitData(ErrHeap))

NextErr ==
    \/ Construct(ErrKinds)
    \/ Assign(ErrWrites, FALSE)
    \/ Unwatch
    \/ Tick
    \/ Step

SpecErr == InitErr /\ [][NextErr]_vars

(***************************************************************************)
(* SpecLoop: Watchers that queue themselves again in every run: one whose  *)
(* callback writes the property it watches, one whose evaluation function  *)
(* writes the property it reads; beside them a Watcher that does neither.  *)
(***************************************************************************)
LoopHeap ==
    [o \in {Root} |->
        PlainObject([NoProps EXCEPT !["a"] = PlainProp(Num(0)),
                                    !["b"] = PlainProp(Num(0))])]

LoopKinds ==
    {Watch("a", "a=!a", FALSE, FALSE), Render("b;b=!b"), Render("a"),
     Watch("b", "", FALSE, FALSE)}

LoopWrites ==
    {<<Root, "a", Num(n)>> : n \in 0..1} \cup {<<Root, "b", Num(n)>> : n \in 0..1}

InitLoop == StartFrom(InitData(LoopHeap))

NextLoop ==
    \/ Construct(LoopKinds)
    \/ Assign(LoopWrites, FALSE)
    \/ Unwatch
    \/ Tick
    \/ Step

SpecLoop == InitLoop /\ [][NextLoop]_vars

(***************************************************************************)
(* SpecSet: set and del on the root data, on an observed object below it   *)
(* (which a further component may take as its own root data) and on a      *)
(* component instance.                                                     *)
(***************************************************************************)
Vm == 3

SetHeap ==
    [o \in 1..3 |->
        CASE o = Root -> PlainObject([NoProps EXCEPT !["a"] = PlainProp(Num(0)),
                                                     !["o"] = PlainProp(Ref(2))])
          [] o = 2 -> PlainObject([NoProps EXCEPT !["m"] = PlainProp(Num(0))])
          [] o = Vm -> [PlainObject(NoProps) EXCEPT !.isVue = TRUE]]

SetKinds == {Render("o"), Render("a")}

SetCalls == {<<o, k, Num(1)>> : o \in 1..3, k \in {"a", "m", "n"}}

DelCalls == {<<o, k>> : o \in 1..3, k \in {"a", "m", "n"}}

InitSet == StartFrom(InitData(SetHeap))

NextSet ==
    \/ Construct(SetKinds)
    \/ Set(SetCalls)
    \/ Delete(DelCalls)
    \/ ObserveValue
    \/ Tick
    \/ Step

SpecSet == InitSet /\ [][NextSet]_vars

(***************************************************************************)
(* SpecProps: a child component with data {a} and props {b}; application   *)
(* code writes both.                                                       *)
(***************************************************************************)
\* vm._props
Props == 2

PropsHeap ==
    [o \in 1..2 |->
        CASE o = Root -> PlainObject([NoProps EXCEPT !["a"] = PlainProp(Num(0))])
          [] o = Props -> PlainObject([NoProps EXCEPT !["b"] = PlainProp(Num(0))])]

PropsKinds ==
    {Render("props.b"), Watch("props.b", "", TRUE, FALSE), Render("a"),
     ComputedKind("props.b")}

PropsWrites ==
    {<<Props, "b", Num(n)>> : n \in 0..MaxVal}
    \cup {<<Root, "a", Num(n)>> : n \in 0..1}

\* initState: initProps, then initData
InitProps ==
    StartFrom(observe(initProps(Blank(PropsHeap), Props), Ref(Root), TRUE))

NextProps ==
    \/ Construct(PropsKinds)
    \/ Assign(PropsWrites, FALSE)
    \/ Unwatch
    \/ ReadComputed
    \/ Tick
    \/ Step

SpecProps == InitProps /\ [][NextProps]_vars

(***************************************************************************)
(* SpecTick: application code registers callbacks with nextTick; some of   *)
(* them register a further one when they run, one registers itself again,  *)
(* one throws; a render Watcher has the scheduler register its flush.      *)
(***************************************************************************)
TickHeap ==
    [o \in {Root} |-> PlainObject([NoProps EXCEPT !["a"] = PlainProp(Num(0))])]

TickKinds == {Render("a")}

TickWrites == {<<Root, "a", Num(n)>> : n \in 0..1}

TickCallbacks == {"x", "nextTick(y)", "again", "nextTick(x);throw"}

InitTick ==
    StartFrom([InitData(TickHeap) EXCEPT !.hist.log = TRUE])

NextDefer ==
    \/ Construct(TickKinds)
    \/ Assign(TickWrites, FALSE)
    \/ NextTickCall(TickCallbacks)
    \/ Tick
    \/ Step

SpecTick == InitTick /\ [][NextDefer]_vars

\* the host runs a flushCallbacks task the timer function has handed to it
\* (setImmediate, a MessageChannel message, a resolved Promise's then,
\* setTimeout) after finitely many other tasks: strong fairness of Tick,
\* with the state predicate that equals ENABLED <<Tick>>_vars written out
TickFairness ==
    <>[]~(Idle /\ timers > 0) \/ []<><<Tick>>_vars

\* a handler in progress runs to its end: weak fairness of Resume, with the
\* state predicate that equals ENABLED <<Resume>>_vars written out
ResumeFairness ==
    []<>(stack = <<>>) \/ []<><<Resume>>_vars

\* SpecTick with the host's scheduling
SpecTickFair ==
    SpecTick /\ WF_vars(Return) /\ ResumeFairness /\ TickFairness

(***************************************************************************)
(* SpecAdd: a child component whose data holds an observed object, vm.o,   *)
(* and whose props hold an object the parent passed, vm._props.o, which is *)
(* not observed until application code calls Vue.observable on it.  Keys   *)
(* are added to and deleted from both objects and written afterwards.      *)
(***************************************************************************)
AddHeap ==
    [o \in 1..4 |->
        CASE o = Root -> PlainObject([NoProps EXCEPT !["o"] = PlainProp(Ref(3))])
          [] o = Props -> PlainObject([NoProps EXCEPT !["o"] = PlainProp(Ref(4))])
          [] OTHER -> PlainObject([NoProps EXCEPT !["m"] = PlainProp(Num(0))])]

\* the objects keys are added to
AddTargets == {3, 4}

AddKinds ==
    {Render("o"), Watch("o.n", "", FALSE, FALSE), Render("props.o")}

AddCalls == {<<o, "n", Num(1)>> : o \in AddTargets}

AddDelCalls == {<<o, k>> : o \in AddTargets, k \in {"m", "n"}}

AddWrites == {<<o, "n", Num(2)>> : o \in AddTargets}

InitAdd ==
    StartFrom(observe(initProps(Blank(AddHeap), Props), Ref(Root), TRUE))

NextAdd ==
    \/ Construct(AddKinds)
    \/ Set(AddCalls)
    \/ Delete(AddDelCalls)
    \/ Assign(AddWrites, FALSE)
    \/ Observable({4})
    \/ Tick
    \/ Step

SpecAdd == InitAdd /\ [][NextAdd]_vars

(***************************************************************************)
(* SpecComp: a component with the computed property c = flag ? a : b, a    *)
(* render Watcher or a sync $watch that reads vm.c, and reads of vm.c in    *)
(* application code.                                                       *)
(***************************************************************************)
CompKinds == {Render("c"), Watch("c", "", TRUE, FALSE), Watch("c", "", FALSE, FALSE)}

\* initState: initData, then initComputed
InitComp ==
    StartFrom(NewWatcher(InitData(CoreHeap), ComputedKind("flag?a:b")))

NextComp ==
    \/ Construct(CompKinds)
    \/ Assign(CoreWrites, FALSE)
    \/ ReadComputed
    \/ Tick
    \/ Step

SpecComp == InitComp /\ [][NextComp]_vars

(***************************************************************************)
(* SpecNotify: sync Watchers over {flag, a, b} whose update() changes the   *)
(* subscriber lists while a notify() loops: the callback of one toggles    *)
(* flag, so that a Watcher of flag ? a : b re-evaluates and subscribes to  *)
(* or leaves the Dep being notified; the callback of another tears the     *)
(* second Watcher down.                                                    *)
(***************************************************************************)
NotifyKinds ==
    {Watch("a", "flag=!flag", TRUE, FALSE), Watch("flag?a:b", "", TRUE, FALSE),
     Watch("aa", "unwatch2", TRUE, FALSE), Render("flag?a:b")}

InitNotify == StartFrom(InitData(CoreHeap))

NextNotify ==
    \/ Construct(NotifyKinds)
    \/ Assign(CoreWrites, FALSE)
    \/ Tick
    \/ Step

SpecNotify == InitNotify /\ [][NextNotify]_vars

(***************************************************************************)
(* SpecInit: two child components are initialised, one whose parent passes *)
(* b and o, one whose parent passes only b, with props options that take   *)
(* the passed values, produce a default for o, or throw from the default   *)
(* factory or from a validator; a component instance resolves an injection;*)
(* application code observes objects afterwards.                           *)
(***************************************************************************)
InitHeap ==
    [o \in 1..6 |->
        CASE o = Root -> PlainObject([NoProps EXCEPT !["o"] = PlainProp(Ref(5))])
          [] o = 2 -> PlainObject([NoProps EXCEPT !["b"] = PlainProp(Num(0)),
                                                  !["o"] = PlainProp(Ref(5))])
          [] o = 3 -> PlainObject([NoProps EXCEPT !["b"] = PlainProp(Num(0))])
          [] o = 6 -> [PlainObject(NoProps) EXCEPT !.isVue = TRUE]
          [] OTHER -> PlainObject([NoProps EXCEPT !["m"] = PlainProp(Num(0))])]

OptionNames == {"plain", "factory", "factoryThrows", "validatorThrows"}

Injections ==
    {[t |-> "none", v |-> Undef], [t |-> "throws", v |-> Undef],
     [t |-> "found", v |-> Ref(Fresh)], [t |-> "found", v |-> Num(1)]}

InitInit == StartFrom(InitData(InitHeap))

NextInit ==
    \/ InitPropsCall({2, 3}, OptionNames)
    \/ InitInjectionsCall(6, Injections)
    \/ Observable({Fresh})
    \/ Step

SpecInit == InitInit /\ [][NextInit]_vars

(***************************************************************************)
(* SpecDown: Watchers over {flag, a, b} are torn down, by application code *)
(* any number of times, by their own expression and by the callback of     *)
(* another Watcher, between writes and flushes.                            *)
(***************************************************************************)
DownKinds ==
    {Render("flag?a:b"), Watch("a;unwatch;b", "", FALSE, FALSE),
     Watch("aa", "unwatch2", TRUE, FALSE)}

InitDown == StartFrom(InitData(CoreHeap))

NextDown ==
    \/ Construct(DownKinds)
    \/ Assign(CoreWrites, FALSE)
    \/ Teardown
    \/ Tick
    \/ Step

SpecDown == InitDown /\ [][NextDown]_vars

(***************************************************************************)
(* SpecAgain: Watchers that go through the scheduler and invalidate        *)
(* themselves while they run: a render that resets flag when it finds it   *)
(* set, which settles after one more run, and a $watch whose callback      *)
(* toggles what it watches, which never settles.                           *)
(***************************************************************************)
AgainKinds ==
    {Render("flag&&(flag=0);a"), Watch("a", "a=!a", FALSE, FALSE), Render("a")}

AgainWrites ==
    {<<Root, "flag", Num(n)>> : n \in 0..1} \cup {<<Root, "a", Num(n)>> : n \in 0..1}

InitAgain == StartFrom(InitData(CoreHeap))

NextAgain ==
    \/ Construct(AgainKinds)
    \/ Assign(AgainWrites, FALSE)
    \/ Tick
    \/ Step

SpecAgain == InitAgain /\ [][NextAgain]_vars

(***************************************************************************)
(* SpecPost: render Watchers of a and of b that register a post-flush      *)
(* callback each time they are evaluated, the second a callback that       *)
(* writes b, and a $watch of b.                                            *)
(***************************************************************************)
PostKinds ==
    {Render("a;after(x)"), Render("b;after(b=1)"), Watch("b", "", FALSE, FALSE)}

PostWrites ==
    {<<Root, "a", Num(n)>> : n \in 0..1} \cup {<<Root, "b", Num(n)>> : n \in 0..1}

InitPost == StartFrom(InitData(BatchHeap))

NextPost ==
    \/ Construct(PostKinds)
    \/ Assign(PostWrites, FALSE)
    \/ Tick
    \/ Step

SpecPost == InitPost /\ [][NextPost]_vars

(***************************************************************************)
(* SpecRun: $watch Watchers over {a, b, o} that are re-run with the value  *)
(* changed and unchanged: a number, NaN, an object, with and without deep; *)
(* a sync Watcher whose callback resets what it watches; Watchers torn     *)
(* down while they are queued.                                             *)
(***************************************************************************)
RunHeap ==
    [o \in 1..2 |->
        IF o = Root
        THEN PlainObject([NoProps EXCEPT !["a"] = PlainProp(Num(1)),
                                         !["b"] = PlainProp(Num(0)),
                                         !["o"] = PlainProp(Ref(2))])
        ELSE PlainObject([NoProps EXCEPT !["m"] = PlainProp(Num(0))])]

RunKinds ==
    {Watch("b;a", "", FALSE, FALSE), Watch("b;a", "", FALSE, TRUE),
     Watch("b;o", "", TRUE, FALSE), Watch("a", "a&&(a=0)", TRUE, FALSE)}

RunWrites ==
    {<<Root, "a", v>> : v \in {Num(0), Num(1), NaN}}
    \cup {<<Root, "b", Num(n)>> : n \in 0..1}

InitRun == StartFrom([InitData(RunHeap) EXCEPT !.hist.runs = TRUE])

NextRun ==
    \/ Construct(RunKinds)
    \/ Assign(RunWrites, FALSE)
    \/ Unwatch
    \/ Tick
    \/ Step

SpecRun == InitRun /\ [][NextRun]_vars

(***************************************************************************)
(* SpecGet: a child component whose data property o holds an array of an   *)
(* object and a nested array, and is assigned other containers; its props  *)
(* hold an object the parent passed, which is observed later, by           *)
(* Vue.observable or by being assigned to vm.o.  Watchers read vm.o and    *)
(* the prop.                                                               *)
(***************************************************************************)
GetHeap ==
    [o \in 1..6 |->
        CASE o = Root -> PlainObject([NoProps EXCEPT !["o"] = PlainProp(Ref(3))])
          [] o = Props -> PlainObject([NoProps EXCEPT !["o"] = PlainProp(Ref(4))])
          [] o = 3 -> PlainArray(<<Ref(5), Ref(6)>>)
          [] o = 6 -> PlainArray(<<Ref(5)>>)
          [] OTHER -> PlainObject([NoProps EXCEPT !["m"] = PlainProp(Num(0))])]

GetKinds == {Render("o"), Render("props.o"), Watch("o", "", TRUE, FALSE)}

GetWrites == {<<Root, "o", Ref(o)>> : o \in {3, 4, 6}}

InitGet ==
    StartFrom(observe(initProps(Blank(GetHeap), Props), Ref(Root), TRUE))

NextGet ==
    \/ Construct(GetKinds)
    \/ Assign(GetWrites, FALSE)
    \/ Observable({4})
    \/ Tick
    \/ Step

SpecGet == InitGet /\ [][NextGet]_vars

(***************************************************************************)
(* SpecFrame: a component with data {flag, a, b, o}, the computed property *)
(* flag ? a : b, a sync Watcher of a and a deep Watcher of flag ? o : b;    *)
(* o refers to an object made non-extensible that refers to itself, or     *)
(* holds a number.                                                         *)
(***************************************************************************)
FrameHeap ==
    [o \in 1..2 |->
        IF o = Root
        THEN PlainObject([NoProps EXCEPT !["flag"] = PlainProp(Num(1)),
                                         !["a"] = PlainProp(Num(1)),
                                         !["b"] = PlainProp(Num(0)),
                                         !["o"] = PlainProp(Ref(2))])
        ELSE NotExtensible(PlainObject([NoProps EXCEPT !["m"] = PlainProp(Ref(2))]))]

FrameKinds ==
    {ComputedKind("flag?a:b"), Watch("a", "", TRUE, FALSE),
     Watch("flag?o:b", "", FALSE, TRUE)}

FrameWrites ==
    {<<Root, "flag", Num(n)>> : n \in 0..1}
    \cup {<<Root, "a", Num(n)>> : n \in 1..2}
    \cup {<<Root, "o", v>> : v \in {Num(0), Ref(2)}}

InitFrame == StartFrom([InitData(FrameHeap) EXCEPT !.hist.runs = TRUE])

NextFrame ==
    \/ Construct(FrameKinds)
    \/ Assign(FrameWrites, FALSE)
    \/ ReadComputed
    \/ Tick
    \/ Step

SpecFrame == InitFrame /\ [][NextFrame]_vars

(***************************************************************************)
(* SpecSeen: deep Watchers of vm.o, an observed object that refers to an   *)
(* observed leaf and, through m, to an object made non-extensible that     *)
(* refers to itself; writes to o.m replace that reference, writes to the   *)
(* leaf follow.                                                            *)
(***************************************************************************)
SeenHeap ==
    [o \in 1..4 |->
        CASE o = Root -> PlainObject([NoProps EXCEPT !["o"] = PlainProp(Ref(2))])
          [] o = 2 -> PlainObject([NoProps EXCEPT !["m"] = PlainProp(Ref(3)),
                                                  !["b"] = PlainProp(Ref(4))])
          [] o = 3 -> NotExtensible(
                          PlainObject([NoProps EXCEPT !["m"] = PlainProp(Ref(3))]))
          [] OTHER -> TravLeaf]

SeenKinds == {Watch("o", "", FALSE, TRUE), Watch("o", "", TRUE, TRUE), Render("o")}

SeenWrites ==
    {<<2, "m", v>> : v \in {Num(0), Ref(4)}}
    \cup {<<4, "a", Num(n)>> : n \in 0..1}

InitSeen == StartFrom(InitData(SeenHeap))

NextSeen ==
    \/ Construct(SeenKinds)
    \/ Assign(SeenWrites, FALSE)
    \/ Unwatch
    \/ Tick
    \/ Step

SpecSeen == InitSeen /\ [][NextSeen]_vars

(***************************************************************************)
(* SpecLazy: initComputed constructs the Watcher of the computed property  *)
(* c = flag ? a : b; a render Watcher and a sync $watch read vm.c, and     *)
(* application code reads it, before and after writes to flag, a and b.    *)
(***************************************************************************)
LazyKinds ==
    {ComputedKind("flag?a:b"), Render("c"), Watch("c", "", TRUE, FALSE)}

InitLazy == StartFrom(InitData(CoreHeap))

NextLazy ==
    \/ Construct(LazyKinds)
    \/ Assign(CoreWrites, FALSE)
    \/ ReadComputed
    \/ Tick
    \/ Step

SpecLazy == InitLazy /\ [][NextLazy]_vars

(***************************************************************************)
(* SpecStale: the computed property c = flag ? a : b is read by sync       *)
(* Watchers: one reads vm.a before vm.c, so that it subscribes to the Dep  *)
(* of a before the computed Watcher does, the other reads vm.c only.       *)
(***************************************************************************)
StaleKinds ==
    {ComputedKind("flag?a:b"), Watch("a;c", "", TRUE, FALSE),
     Watch("c", "", TRUE, FALSE)}

InitStale == StartFrom(InitData(CoreHeap))

NextStale ==
    \/ Construct(StaleKinds)
    \/ Assign(CoreWrites, FALSE)
    \/ ReadComputed
    \/ Step

SpecStale == InitStale /\ [][NextStale]_vars

(***************************************************************************)
(* Properties.                                                             *)
(***************************************************************************)
InSubs(w, d) == w \in SeqSet(subs[d + 1])

\* C1: after any completed get() of a Watcher, its deps are exactly the Deps
\* depended on during that evaluation, each of them lists the Watcher, and no
\* Dep it held before and did not read lists it.
C1_DepsAreTheReads ==
    ev.t = "got" =>
        /\ SeqSet(watchers[ev.w].deps) = ev.rd
        /\ \A d \in ev.rd : InSubs(ev.w, d)
        /\ \A d \in ev.prev \ ev.rd : ~InSubs(ev.w, d)

\* C2: in every reachable state a Watcher is at most once in the subscriber
\* list of any Dep.
C2_AtMostOnce ==
    \A d \in 1..Len(subs) : \A w \in 1..Len(watchers) : Count(subs[d], w) <= 1

\* a Watcher that reads a twice per evaluation has been evaluated again and
\* is once in a's list
C2_Witness ==
    /\ ev.t = "got"
    /\ watchers[ev.w].g = "aa"
    /\ ev.prev # {}
    /\ \E d \in ev.rd : Count(subs[d + 1], ev.w) = 1

C7_NoCallbackAfterTeardown ==
    /\ ev.t = "cb" => stack[Len(stack) - 1].k = "run" /\ stack[Len(stack) - 1].c
    /\ \A i \in 1..Len(stack) : stack[i].k = "run" => stack[i].c

\* a flush has called run() on a Watcher torn down while it was queued, and
\* has not run its callback
C7_Witness ==
    /\ ev.t = "flushed"
    /\ \E w \in SeqSet(hist.runlog) : ~watchers[w].active

\* C8 as claimed: an inactive Watcher is in no Dep's subscriber list.
C8_InactiveInNoList ==
    \A w \in 1..Len(watchers) :
        ~watchers[w].active => \A d \in 1..Len(subs) : w \notin SeqSet(subs[d])

\* the first place of x in sq
FirstAt(sq, x) == CHOOSE i \in 1..Len(sq) : sq[i] = x /\ \A j \in 1..(i - 1) : sq[j] # x

\* C4: when a flush has completed, a Watcher that the writes of the burst had
\* queued, and that nothing invalidated again during the flush, has had run()
\* called exactly once since the burst began, and, if it is active and watches
\* a, its value is the last value written to a.
C4_OneRunPerBurst ==
    ev.t = "flushed" =>
        \A w \in hist.batch \ hist.requeued :
            /\ Count(hist.runlog, w) = 1
            /\ watchers[w].active /\ watchers[w].g = "a"
                   => watchers[w].value = heap[Root].props["a"].val

\* three writes of a in one burst, one run of the Watcher, which has seen the
\* last value
C4_Witness ==
    /\ ev.t = "flushed"
    /\ \E w \in hist.batch \ hist.requeued :
          /\ hist.nw[w] = 3
          /\ watchers[w].g = "a"
          /\ Count(hist.runlog, w) = 1
          /\ watchers[w].value = Num(3)

\* C5: when a flush has completed, of two Watchers that the burst had queued,
\* the one created first has had its run() called first, in whichever order
\* the burst invalidated them.
C5_CreationOrder ==
    ev.t = "flushed" =>
        \A A, B \in SeqSet(hist.order) :
            A < B => /\ A \in SeqSet(hist.runlog)
                     /\ B \in SeqSet(hist.runlog)
                     /\ FirstAt(hist.runlog, A) < FirstAt(hist.runlog, B)

\* the burst invalidated the later Watcher first
C5_Witness ==
    /\ ev.t = "flushed"
    /\ hist.order = <<2, 1>>
    /\ hist.runlog = <<1, 2>>

\* C6: update() of a lazy Watcher sets dirty and starts nothing; a lazy
\* Watcher is never queued or run; a get() of a lazy Watcher returns into the
\* computed getter that evaluate()d it.
C6_LazyOnlyDirty ==
    /\ ev.t = "dirtied" =>
          /\ watchers[ev.w].dirty
          /\ Last(stack).k = "notify"
    /\ \A i \in 1..Len(queue) : ~watchers[queue[i]].lazy
    /\ \A i \in 1..Len(stack) : stack[i].k = "run" => ~watchers[stack[i].w].lazy
    /\ ev.t = "got" /\ watchers[ev.w].lazy =>
          /\ stack # <<>>
          /\ Last(stack).k = "computed"
          /\ Last(stack).w = ev.w

\* a write has invalidated a computed Watcher that had a value, and the value
\* is still the one of its last evaluation
C6_Witness ==
    /\ ev.t = "dirtied"
    /\ watchers[ev.w].value.t = "num"
    /\ watchers[ev.w].dirty

\* the array vm.o
TheArray == heap[Root].props["o"].val.n

\* what an array mutator inserted is observed, frozen objects included or not
InsertedObserved(ins, all) ==
    \A i \in 1..Len(ins) :
        IsObject(ins[i]) /\ (all \/ heap[ins[i].n].ext) => heap[ins[i].n].ob

\* the notify() of an array mutator has updated, once each, the Watchers of
\* the array's own Dep, among them every active Watcher that read vm.o
ReadersUpdated ==
    /\ ev.d = heap[TheArray].dep
    /\ ev.done = ev.snap
    /\ \A w \in 1..Len(watchers) :
          watchers[w].active /\ watchers[w].g = "o" => w \in SeqSet(ev.snap)

InnerDep ==
    heap[heap[heap[Root].props["o"].val.n].props["m"].val.n].props["n"].dep

\* C10: a value-changing write to o.m.n updates every active deep Watcher of
\* o (which is in the Dep's list, or was queued before) and no Watcher of o
\* that is not deep; the callback of the deep Watcher has run when the
\* notify() returns, if it is sync, and when the flush completes otherwise.
C10_DeepSeesNested ==
    /\ ev.t = "notified" /\ ev.d = InnerDep =>
          \A w \in 1..Len(watchers) :
              watchers[w].active /\ watchers[w].g = "o" =>
                  IF watchers[w].deep
                  THEN /\ w \in SeqSet(ev.done) \/ watchers[w].id \in has
                       /\ watchers[w].sync /\ watchers[w].cb = "b=1"
                              => heap[Root].props["b"].val = Num(1)
                  ELSE w \notin SeqSet(ev.done)
    /\ ev.t = "flushed" =>
          \A w \in hist.batch :
              watchers[w].active /\ watchers[w].deep => w \in hist.fired

\* a write to o.m.n has updated a deep Watcher of o and not the Watcher of o
\* that is not deep
C10_Witness ==
    /\ ev.t = "notified" /\ ev.d = InnerDep
    /\ \E w, x \in 1..Len(watchers) :
          /\ watchers[w].active /\ watchers[w].deep /\ w \in SeqSet(ev.done)
          /\ watchers[x].active /\ ~watchers[x].deep /\ x \notin SeqSet(ev.done)

\* C11 as claimed: the traverse of every completed get() of a deep Watcher
\* has ended without exhausting the call stack, and has read the entries of
\* no container twice.
C11_TraverseEnds ==
    ev.t = "got" /\ watchers[ev.w].deep =>
        /\ ~ev.over
        /\ \A o \in SeqSet(ev.vis) : Count(ev.vis, o) = 1

\* C12: a call observe(value, asRootData) on a value that carries __ob__
\* changes nothing but the vmCount of that __ob__, by one and only when
\* asRootData is set: no Dep is created, no property is defined again and the
\* value keeps its __ob__ and the Dep of it, with the should-observe switch on
\* or off.
C12_ObserveIdempotent ==
    [][ev'.t = "observed" /\ heap[ev'.v.n].ob =>
          /\ subs' = subs
          /\ heap' = [heap EXCEPT ![ev'.v.n].vmCount =
                                      IF ev'.c THEN @ + 1 ELSE @]
          /\ watchers' = watchers]_vars

\* observe() was called a second time as root data on an observed object
\* while the switch was off
C12_Witness ==
    /\ ev.t = "observed"
    /\ ev.c
    /\ ~shouldObserve
    /\ heap[ev.v.n].ob
    /\ heap[ev.v.n].vmCount = 2

\* the write x stores what the reactive property holds: the same number, the
\* same object, or NaN over NaN
Identical(x) ==
    LET p == heap[x[1]].props[x[2]]
    IN  p.rx /\ (x[3] = p.val)

\* C13: a write through a reactive setter of the value the property holds
\* (NaN over NaN included) changes nothing: not the stored value, the child
\* Observer or any other part of the heap, no subscriber list, and no
\* Watcher, which is neither queued, run nor marked dirty.
C13_SameValueNoEffect ==
    [][\A x \in WriteWrites :
          Idle /\ Identical(x) /\ WriteOf(x, TRUE) =>
              UNCHANGED <<heap, subs, watchers, queue, has, waiting,
                          callbacks, pending, timers, stack>>]_vars

\* NaN was written over NaN while a clean computed Watcher subscribed to the
\* property
C13_Witness ==
    /\ ev.t = "same"
    /\ ev.v = NaN
    /\ \E w \in SeqSet(subs[ev.d + 1]) : watchers[w].lazy /\ ~watchers[w].dirty

\* C14: a read of a reactive property by application code, made while the
\* target stack is empty, changes no subscriber list and no Watcher.
C14_ReadOutsideInert ==
    [][\A x \in TravReads :
          Idle /\ targetStack = <<>> /\ ReadOf(x)
              => UNCHANGED <<subs, watchers>>]_vars

\* application code has read a property that has a subscriber
C14_Witness ==
    /\ ev.t = "read"
    /\ targetStack = <<>>
    /\ ev.d # 0
    /\ subs[ev.d + 1] # <<>>

\* C15: an exception of the evaluation function or of the callback of a user
\* Watcher is reported and goes no further than get() and run(): it reaches
\* neither the flush, nor the task that runs the flush, nor the code that
\* wrote the property; and a flush that ends has called run() on every
\* Watcher of its queue.
C15_UserErrorsContained ==
    /\ ev.t \in {"got", "ran"} /\ ev.err => ~exc
    /\ ~(ev.t = "tick" /\ ev.err)
    /\ stack = <<>> => ~exc
    /\ ev.t = "flushed" => \A w \in hist.batch : w \in SeqSet(hist.runlog)

\* a flush has ended in which the Watcher run first had thrown, from its
\* evaluation function or from its callback, and the next one was run
C15_Witness ==
    /\ ev.t = "flushed"
    /\ Len(hist.runlog) = 2
    /\ hist.runlog[1] # hist.runlog[2]
    /\ watchers[hist.runlog[1]].user
    /\ \/ watchers[hist.runlog[1]].g = "a;throw"
       \/ watchers[hist.runlog[1]].cb = "throw" /\ hist.runlog[1] \in hist.fired

\* C16 as claimed: when get() is over, by return or by exception, the target
\* stack is what it was when get() was called, and the Watcher's dependency
\* lists are reconciled: newDeps and newDepIds are empty, and depIds holds the
\* ids of deps.
C16_GetRestoresTarget ==
    ev.t = "got" =>
        /\ targetStack = ev.ts
        /\ watchers[ev.w].newDeps = <<>>
        /\ watchers[ev.w].newDepIds = {}
        /\ watchers[ev.w].depIds = SeqSet(watchers[ev.w].deps)

\* the entries a queue can get: a Watcher is queued once before the flush and
\* at most once more in each run of the flush that writes, and the Watchers
\* here write only what they watch, so that their writing runs are counted
QueueBound == MaxWatchers * (1 + MaxWatchers * (MaxUpdateCount + 1))

\* C17: a flush ends, for its queue never grows beyond QueueBound entries and
\* each turn of its loop takes the next one; the runs of a Watcher in which it
\* queued itself again are counted, and MaxUpdateCount + 1 of them are the
\* most a flush has; with that run the error is reported, once, and the
\* Watcher is in no later entry of the queue.
C17_FlushEnds ==
    /\ Len(queue) <= QueueBound
    /\ \A w \in 1..Len(watchers) :
          /\ Count(circular, IdOf(Cur, w)) <= MaxUpdateCount + 1
          /\ Count(hist.circ, w) <= 1
          /\ flushing /\ w \in SeqSet(hist.circ) =>
                /\ Count(circular, IdOf(Cur, w)) = MaxUpdateCount + 1
                /\ \A i \in index..Len(queue) : queue[i] # w
    /\ ev.t = "circular" => ev.w \in SeqSet(hist.circ)

\* a flush has ended in which one Watcher was stopped by the cap and the other
\* was run
C17_Witness ==
    /\ ev.t = "flushed"
    /\ \E w, x \in 1..Len(watchers) :
          /\ w # x
          /\ hist.circ = <<w>>
          /\ Count(hist.runlog, w) = MaxUpdateCount + 1
          /\ Count(hist.runlog, x) = 1
          /\ FirstAt(hist.runlog, w) < FirstAt(hist.runlog, x)

\* a component instance, or an object observed as the root data of a component
RootContainer(o) == heap[o].isVue \/ (heap[o].ob /\ heap[o].vmCount # 0)

\* the call has returned val, has thrown nothing, has called no notify() and
\* has changed no object, no subscriber list, no Watcher and nothing of the
\* scheduler
NoOp(kind, val) ==
    /\ UNCHANGED <<heap, subs, watchers, targetStack, queue, has, waiting,
                   callbacks, pending, timers>>
    /\ stack' = <<>>
    /\ ~exc'
    /\ ev'.t = kind
    /\ ev'.v = val
    /\ ~ev'.c

\* C18: set with a key the target does not have, and del, on a component
\* instance or on an object with a vmCount above 0, return (set: val) and
\* change nothing: no key, no Dep notified, nothing thrown.
C18_RootSetDelNoOp ==
    [][/\ \A x \in SetCalls :
             Idle /\ RootContainer(x[1]) /\ ~heap[x[1]].arr
                  /\ ~heap[x[1]].props[x[2]].own /\ SetOf(x)
                 => NoOp("set", x[3])
       /\ \A x \in DelCalls :
             Idle /\ RootContainer(x[1]) /\ DelOf(x) => NoOp("del", Undef)]_vars

\* set has returned from a call that named a new key of an object that is
\* root data and whose Dep has a subscriber
C18_Witness ==
    /\ ev.t = "set"
    /\ ev.d # Root
    /\ heap[ev.d].ob
    /\ heap[ev.d].vmCount # 0
    /\ ~heap[ev.d].props[ev.k].own
    /\ subs[heap[ev.d].dep + 1] # <<>>
    /\ ev.v = Num(1)

\* C19 as claimed: a write to a property installed with a customSetter
\* calls it when the value differs and changes nothing else: the stored
\* value stays and no Watcher is updated.
C19_IllegalWriteNoOp ==
    [][\A x \in PropsWrites :
          Idle /\ heap[x[1]].props[x[2]].customSetter /\ WriteOf(x, FALSE)
              => /\ heap' = heap
                 /\ UNCHANGED <<subs, watchers, queue, has, waiting, callbacks,
                                pending, timers>>
                 /\ ~Identical(x) => <<x[1], x[2]>> \in hist'.warned]_vars

IsPrefix(p, q) == Len(p) <= Len(q) /\ p = SubSeq(q, 1, Len(p))

\* C20: the callbacks a drain has invoked are, in order, the first ones
\* registered; they are never more than those registered when the drain
\* started; when the drain ends it has invoked each of those, and the ones
\* registered meanwhile are the pending list, for which a further drain is
\* scheduled.
C20_FifoSnapshot ==
    /\ IsPrefix(hist.ran, hist.reg)
    /\ Len(hist.ran) <= hist.mark
    /\ ev.t = "drained" =>
          /\ Len(hist.ran) = hist.mark
          /\ callbacks = SubSeq(hist.reg, hist.mark + 1, Len(hist.reg))
          /\ callbacks # <<>> => pending /\ timers > 0

\* a drain has ended that ran three callbacks, not all the same, while two
\* more were registered
C20_Witness ==
    /\ ev.t = "drained"
    /\ hist.mark = 3
    /\ hist.ran[1] # hist.ran[2]
    /\ hist.ran[2] # hist.ran[3]
    /\ Len(callbacks) = 2
    /\ callbacks[1] # callbacks[2]


\* set is called on an observed object that is no root container, with a key
\* the object does not have
NewKeyCall(x) ==
    /\ ~heap[x[1]].arr /\ heap[x[1]].ob /\ ~RootContainer(x[1])
    /\ ~heap[x[1]].props[x[2]].own

\* the active Watchers that read a reactive property whose value is object o
HolderReaders(o) ==
    {w \in 1..Len(watchers) :
        /\ watchers[w].active
        /\ \E h \in DOMAIN heap : \E g \in Keys :
              /\ heap[h].props[g].rx
              /\ heap[h].props[g].val = Ref(o)
              /\ heap[h].props[g].dep \in watchers[w].depIds}

\* the active Watchers that read property k of object o
KeyReaders(o, k) ==
    {w \in 1..Len(watchers) :
        watchers[w].active /\ heap[o].props[k].dep \in watchers[w].depIds}

\* set has defined the key as a reactive property holding val and the
\* notify() of the object's own Dep has returned, the only one so far
KeyAdded(x) ==
    /\ heap'[x[1]].props[x[2]].own /\ heap'[x[1]].props[x[2]].rx
    /\ heap'[x[1]].props[x[2]].val = x[3]
    /\ ev'.t = "notified" /\ ev'.d = heap[x[1]].dep
    /\ ev'.done = ev'.snap
    /\ stack' # <<>> /\ stack'[Len(stack')].k = "set"
    /\ stack'[Len(stack')].done = <<heap[x[1]].dep>>

\* the call of set on top of the stack returns
SetReturns ==
    /\ stack # <<>> /\ stack[Len(stack)].k = "set"
    /\ Len(stack') < Len(stack)
    /\ ev'.t = "set"

\* C21 as claimed: set with a new key on an observed object that is no root
\* container defines the key as a reactive property holding the value and
\* calls notify() on the object's own Dep exactly once; update() is called
\* on every Watcher that read a property holding the object; a later write to
\* the new key calls update() on the Watchers that read it.
C21_SetAddsAndNotifies ==
    [][/\ \A x \in AddCalls :
             Idle /\ NewKeyCall(x) /\ SetOf(x)
                 => KeyAdded(x) /\ HolderReaders(x[1]) \subseteq SeqSet(ev'.snap)
       /\ SetReturns => ev'.done = stack[Len(stack)].done /\ ~exc'
       /\ \A x \in AddWrites :
             Idle /\ heap[x[1]].props[x[2]].rx /\ heap[x[1]].props[x[2]].val # x[3]
                  /\ WriteOf(x, FALSE)
                 => /\ ev'.t = "notified" /\ ev'.d = heap[x[1]].props[x[2]].dep
                    /\ KeyReaders(x[1], x[2]) \subseteq SeqSet(ev'.snap)]_vars

\* C21 without the property that holds the object: what set itself does, and
\* the later writes
C21_SetAddsKey ==
    [][/\ \A x \in AddCalls :
             Idle /\ NewKeyCall(x) /\ SetOf(x) => KeyAdded(x)
       /\ SetReturns => ev'.done = stack[Len(stack)].done /\ ~exc'
       /\ \A x \in AddWrites :
             Idle /\ heap[x[1]].props[x[2]].rx /\ heap[x[1]].props[x[2]].val # x[3]
                  /\ WriteOf(x, FALSE)
                 => /\ ev'.t = "notified" /\ ev'.d = heap[x[1]].props[x[2]].dep
                    /\ KeyReaders(x[1], x[2]) \subseteq SeqSet(ev'.snap)]_vars


\* del has removed the key and the notify() of the object's own Dep has
\* returned, the only one so far
KeyRemoved(x) ==
    /\ heap' = [heap EXCEPT ![x[1]].props[x[2]] = NoProp]
    /\ ev'.t = "notified" /\ ev'.d = heap[x[1]].dep
    /\ ev'.snap = subs[heap[x[1]].dep + 1] /\ ev'.done = ev'.snap
    /\ stack' # <<>> /\ stack'[Len(stack')].k = "del"
    /\ stack'[Len(stack')].done = <<heap[x[1]].dep>>

\* del has removed the key and has returned without a notify()
KeyRemovedSilently(x) ==
    /\ heap' = [heap EXCEPT ![x[1]].props[x[2]] = NoProp]
    /\ UNCHANGED <<subs, watchers, queue, has, waiting, callbacks, pending>>
    /\ stack' = <<>> /\ ~exc'
    /\ ev'.t = "del" /\ ev'.done = <<>>

\* the call of del on top of the stack returns
DelReturns ==
    /\ stack # <<>> /\ stack[Len(stack)].k = "del"
    /\ Len(stack') < Len(stack)
    /\ ev'.t = "del"

\* C22: del on an observed object that is no root container removes an own
\* key and calls notify() on the object's own Dep exactly once; with a key
\* that is not an own key it changes nothing and notifies nothing; on an
\* object without __ob__ it removes the key and notifies nothing.
C22_DelRemovesAndNotifies ==
    [][/\ \A x \in AddDelCalls :
             Idle /\ heap[x[1]].ob /\ ~RootContainer(x[1]) /\ DelOf(x)
                 => IF heap[x[1]].props[x[2]].own THEN KeyRemoved(x)
                    ELSE NoOp("del", Undef) /\ ev'.done = <<>>
       /\ DelReturns => ev'.done = stack[Len(stack)].done /\ ~exc'
       /\ \A x \in AddDelCalls :
             Idle /\ ~heap[x[1]].ob /\ heap[x[1]].props[x[2]].own /\ DelOf(x)
                 => KeyRemovedSilently(x)]_vars

\* del has removed an own key of an observed object and has called update()
\* on the Watcher in the list of the object's Dep
C22_Witness ==
    /\ ev.t = "notified" /\ ev.snap # <<>> /\ ev.done = ev.snap
    /\ stack # <<>> /\ stack[Len(stack)].k = "del"
    /\ ev.d = heap[stack[Len(stack)].d].dep
    /\ ~heap[stack[Len(stack)].d].props[stack[Len(stack)].code].own


\* the Watcher of the computed property c
TheComputed == Computed(Cur)

\* the active Watchers whose expression reads vm.c
ComputedReaders ==
    {w \in 1..Len(watchers) :
        watchers[w].active /\ ~watchers[w].lazy /\ watchers[w].g = "c"}

\* Watcher w holds every Dep the Watcher c holds, and is in the list of each
HoldsDepsOf(w, c) ==
    \A d \in SeqSet(watchers[c].deps) : d \in watchers[w].depIds /\ InSubs(w, d)

\* the call of notify() for the write x is in progress, with the computed
\* Watcher and every reader of vm.c in the list it loops over
NotifiesReaders(x, readers) ==
    \E i \in 1..Len(stack') :
        /\ stack'[i].k = "notify"
        /\ stack'[i].d = heap[x[1]].props[x[2]].dep
        /\ readers \cup {TheComputed} \subseteq SeqSet(stack'[i].snap)

\* C23: when a Watcher R has read the computed property in its evaluation, R
\* holds every Dep the lazy Watcher C holds, and still does while R is not
\* queued; a write to an input of C then has both in the list notify() loops
\* over, update() is called on each, and C is dirty after its update().
C23_ReaderHoldsComputedDeps ==
    [][/\ ev'.t = "got" /\ ev'.w \in ComputedReaders'
             => \A d \in SeqSet(watchers'[TheComputed].deps) :
                   d \in watchers'[ev'.w].depIds /\ ev'.w \in SeqSet(subs'[d + 1])
       /\ \A w \in ComputedReaders :
             Idle /\ watchers[w].id \notin has => HoldsDepsOf(w, TheComputed)
       /\ \A x \in CoreWrites :
             /\ Idle /\ Changes(heap[x[1]].props[x[2]], x[3])
             /\ heap[x[1]].props[x[2]].dep \in SeqSet(watchers[TheComputed].deps)
             /\ WriteOf(x, FALSE)
             => NotifiesReaders(x, {w \in ComputedReaders :
                                       HoldsDepsOf(w, TheComputed)})
       /\ ev'.t = "dirtied" => watchers'[ev'.w].dirty
       /\ ev'.t = "notified" => ev'.done = ev'.snap]_vars

\* a write to an input of the computed property has called update() on the
\* computed Watcher and on a Watcher that read vm.c
C23_Witness ==
    /\ ev.t = "notified"
    /\ TheComputed \in SeqSet(ev.done)
    /\ \E w \in ComputedReaders : w \in SeqSet(ev.done)
    /\ \E w \in ComputedReaders : watchers[w].id \in has


\* C24: while a notify() loops, the Watchers it has called update() on are
\* the first ones of the subscriber list as it was when notify() began,
\* whatever the running update() added to or removed from the list; when it
\* ends it has called update() on each Watcher of that list once, and on no
\* Watcher that subscribed meanwhile.
C24_NotifyOverSnapshot ==
    /\ \A i \in 1..Len(stack) :
          stack[i].k = "notify" =>
             /\ IsPrefix(stack[i].done, stack[i].at)
             /\ stack[i].snap = stack[i].at
             /\ Len(stack[i].done) = stack[i].i - 1
    /\ ev.t = "notified" =>
          /\ ev.done = ev.snap
          /\ \A w \in SeqSet(ev.snap) : Count(ev.done, w) = 1
          /\ \A w \in SeqSet(subs[ev.d + 1]) \ SeqSet(ev.snap) :
                Count(ev.done, w) = 0

\* a notify() has ended during which a Watcher subscribed to the Dep: it is
\* in the list now and update() was not called on it
C24_Witness ==
    /\ ev.t = "notified" /\ ev.done # <<>>
    /\ SeqSet(subs[ev.d + 1]) \ SeqSet(ev.snap) # {}

\* a notify() has ended during which a Watcher left the Dep's list
C24_Removed ==
    /\ ev.t = "notified"
    /\ SeqSet(ev.snap) \ SeqSet(subs[ev.d + 1]) # {}


\* C25: the switch shouldObserve is off only while an initProps (or an
\* initInjections) is in progress: when either has finished, by returning or
\* by throwing, the switch is on; and when validateProp has finished the
\* switch is what it was when validateProp was entered.
C25_SwitchOnAfterInit ==
    /\ ev.t \in {"initProps", "initInjections"} => shouldObserve
    /\ ev.t = "validated" => shouldObserve = ev.c
    /\ ~shouldObserve => \E i \in 1..Len(stack) : stack[i].k = "initProps"


\* C26: teardown() on a Watcher that is not active changes nothing: every
\* subscriber list, the owner's list of Watchers and every Watcher, the
\* active flag included, are what they were.
C26_SecondTeardownNoOp ==
    [][\A w \in 1..Len(watchers) :
          Idle /\ ~watchers[w].active /\ TeardownOf(w)
             => /\ UNCHANGED <<subs, vmWatchers, watchers, heap, queue, has,
                              targetStack>>
                /\ ~exc']_vars

\* teardown() has been called on a Watcher that was torn down before, holds
\* Deps, and is still in the list of one of them
C26_Witness ==
    /\ ev.t = "teardown" /\ ~ev.c
    /\ ~watchers[ev.w].active
    /\ \E d \in SeqSet(watchers[ev.w].deps) : InSubs(ev.w, d)


\* the turn of the flush in progress: 1 before run() of queue[index] is
\* called, 2 while it runs; 0 when no flush is in progress
FlushPc ==
    IF \E i \in 1..Len(stack) : stack[i].k = "flush"
    THEN stack[CHOOSE i \in 1..Len(stack) : stack[i].k = "flush"].pc
    ELSE 0

\* the entries of the pending list that are still to be processed
ToProcess ==
    IF ~flushing THEN queue
    ELSE SubSeq(queue, IF FlushPc = 2 THEN index + 1 ELSE index, Len(queue))

\* the Watchers in the list of the Dep of x are all marked queued, and none
\* is lazy or sync
AllQueued(x) ==
    \A w \in SeqSet(subs[heap[x[1]].props[x[2]].dep + 1]) :
        watchers[w].id \in has /\ ~watchers[w].lazy /\ ~watchers[w].sync

\* C27: no Watcher is twice among the entries of the pending list that are
\* still to be processed, and each of them is marked queued; a write that
\* invalidates only Watchers that are marked queued leaves the list, the
\* marks and the scheduled flush as they are.
C27_NoIdTwicePending ==
    [][/\ \A i, j \in 1..Len(ToProcess') :
             i # j => watchers'[ToProcess'[i]].id # watchers'[ToProcess'[j]].id
       /\ \A i \in 1..Len(ToProcess') : watchers'[ToProcess'[i]].id \in has'
       /\ \A x \in BatchWrites :
             Idle /\ AllQueued(x) /\ WriteOf(x, TRUE)
                 => UNCHANGED <<queue, has, waiting, callbacks, pending, timers>>]_vars

\* a notify() during a flush has called update() on a Watcher that was
\* marked queued and is once among the entries still to be processed
C27_Witness ==
    /\ ev.t = "notified" /\ flushing
    /\ \E w \in SeqSet(ev.done) :
          /\ watchers[w].id \in has
          /\ w \notin hist.requeued
          /\ hist.nw[w] >= 2
          /\ Count(ToProcess, w) = 1


\* how many entries of the pending list the flush in progress has called
\* run() on
Processed == IF FlushPc = 2 THEN index ELSE index - 1

\* C28: while a flush drains, the entries it has processed stay as they are
\* and the entries still to be processed are in ascending order of id,
\* whatever is inserted among them; when the flush has ended, run() has been
\* called on every entry of the list, in the order of the list, so that every
\* Watcher invalidated during the flush has been run in it.
C28_InsertedIntoTail ==
    [][/\ flushing /\ flushing' =>
             /\ IsPrefix(SubSeq(queue, 1, Processed), queue')
             /\ Processed' >= Processed
       /\ flushing' =>
             \A i, j \in 1..Len(ToProcess') :
                 i < j => watchers'[ToProcess'[i]].id < watchers'[ToProcess'[j]].id
       /\ ev'.t = "flushed" =>
             /\ hist'.runlog = ev'.snap
             /\ hist'.requeued \subseteq SeqSet(hist'.runlog)
             /\ ~waiting' /\ queue' = <<>>]_vars

\* a flush has ended in which a Watcher that had been processed was
\* invalidated by a Watcher created after it, was inserted again and run
\* again
C28_Witness ==
    /\ ev.t = "flushed"
    /\ \E w \in hist.requeued :
          /\ w \notin SeqSet(hist.circ)
          /\ Count(hist.runlog, w) >= 2
          /\ \E x \in SeqSet(hist.runlog) : watchers[x].id > watchers[w].id


\* the Watcher whose run() the flush has called and that has not returned
Running == IF FlushPc = 2 THEN queue[index] ELSE 0

\* C29: when a notify() inside the run() of a queued Watcher has called
\* update() on that same Watcher, the Watcher is marked and is once among the
\* entries still to be processed; when the flush has ended, every Watcher of
\* the burst that was inserted again during the flush has been run at least
\* twice, and a Watcher reported as circular more than MaxUpdateCount times.
C29_SelfInvalidationRunsAgain ==
    /\ ev.t = "notified" /\ Running # 0 /\ Running \in SeqSet(ev.done) =>
          /\ watchers[Running].id \in has
          /\ Count(ToProcess, Running) = 1
    /\ ev.t = "flushed" =>
          /\ \A w \in hist.requeued \cap hist.batch : Count(hist.runlog, w) >= 2
          /\ \A w \in SeqSet(hist.circ) : Count(hist.runlog, w) > MaxUpdateCount

\* a flush has ended in which the render that resets flag invalidated
\* itself, was run a second time and was not reported as circular
C29_Witness ==
    /\ ev.t = "flushed"
    /\ hist.circ = <<>>
    /\ \E w \in hist.requeued \cap hist.batch :
          /\ watchers[w].g = "flag&&(flag=0);a"
          /\ hist.runlog = <<w, w>>


\* a Watcher that goes through the scheduler is in the list of the Dep of x
QueuesSome(x) ==
    \E w \in SeqSet(subs[heap[x[1]].props[x[2]].dep + 1]) :
        ~watchers[w].lazy /\ ~watchers[w].sync

\* C30: when the main pass of a flush has ended, the pending list is empty,
\* no Watcher is marked queued, no flush is scheduled or draining, run() has
\* been called on every entry of the list and no post-flush callback has
\* been invoked yet; the post-flush callbacks are then invoked in the order
\* in which they were registered, each once; and a write that invalidates a
\* Watcher while no flush is scheduled schedules exactly one.
C30_FlushEndsClean ==
    [][/\ ev'.t = "flushed" =>
             /\ queue' = <<>> /\ has' = {} /\ ~waiting' /\ ~flushing'
             /\ "flush" \notin SeqSet(callbacks')
             /\ hist'.runlog = ev'.snap
             /\ \A i \in 1..Len(stack') :
                   stack'[i].k = "flush" => stack'[i].pc = 3 /\ stack'[i].done = <<>>
       /\ \A i \in 1..Len(stack') :
             stack'[i].k = "flush" /\ stack'[i].pc = 3 =>
                /\ stack'[i].snap = stack'[i].at
                /\ IsPrefix(stack'[i].done, stack'[i].at)
                /\ ~flushing'
       /\ ev'.t = "postflushed" => ev'.done = ev'.snap
       /\ queue' = <<>> /\ ~flushing' => ~waiting'
       /\ \A x \in PostWrites :
             /\ Idle /\ ~waiting
             /\ Changes(heap[x[1]].props[x[2]], x[3]) /\ QueuesSome(x)
             /\ WriteOf(x, FALSE)
             => /\ waiting' /\ queue' # <<>>
                /\ Count(callbacks', "flush") = 1
                /\ pending'
                /\ timers' = IF pending THEN timers ELSE timers + 1]_vars

\* the post-flush callbacks of two renders have been invoked in the order of
\* their registration, and the write of the second has scheduled a new flush
C30_Witness ==
    /\ ev.t = "postflushed"
    /\ Len(ev.done) >= 2 /\ ev.done[1] # ev.done[2]
    /\ waiting /\ queue # <<>> /\ ~flushing

\* the calls of run() on Watcher w that have returned into the notify() just
\* completed
RunsOf(w) == {i \in 1..Len(ev.ran) : ev.ran[i][1] = w}

\* C31: when a notify() returns, that is before the setter that called it
\* does, every sync Watcher that was active when the notify() called its
\* update() has had run() called and returned exactly once, in the order of
\* the updates, and a Watcher of a holds the value of a; a sync Watcher is
\* never handed to the scheduler.
C31_SyncRunsInsideWrite ==
    /\ \A i \in 1..Len(queue) : ~watchers[queue[i]].sync
    /\ \A w \in 1..Len(watchers) : watchers[w].sync => IdOf(Cur, w) \notin has
    /\ ev.t = "notified" =>
          /\ \A w \in ev.act :
                watchers[w].sync =>
                    /\ Cardinality(RunsOf(w)) = 1
                    /\ watchers[w].g = "a"
                           => watchers[w].value = heap[Root].props["a"].val
          /\ \A i, j \in 1..Len(ev.ran) :
                i < j => \E m, n \in 1..Len(ev.done) :
                            /\ m < n
                            /\ ev.done[m] = ev.ran[i][1]
                            /\ ev.done[n] = ev.ran[j][1]

\* a write by application code has returned: the sync Watcher of a has been
\* evaluated and its callback invoked, and nothing is scheduled
C31_Witness ==
    /\ ev.t = "notified"
    /\ stack = <<>>
    /\ \E i \in 1..Len(ev.ran) :
          /\ watchers[ev.ran[i][1]].sync
          /\ watchers[ev.ran[i][1]].g = "a"
          /\ ev.ran[i][2]
    /\ queue = <<>>
    /\ timers = 0

\* run() invokes the callback for a value that is not === the cached one, for
\* an object or array, and for a deep Watcher
MustFire(w, value, old) ==
    ~StrictEq(value, old) \/ IsObject(value) \/ watchers[w].deep

\* what C32 says of every run() but the last clause on the cached value
RunFiresIff ==
    /\ ev.t = "cb" =>
          /\ MustFire(ev.w, ev.v, ev.old)
          /\ watchers[ev.w].value = ev.v
    /\ ev.t = "returned" => (ev.c <=> MustFire(ev.w, ev.v, ev.old))
    /\ \A i \in 1..Len(stack) :
          /\ stack[i].k = "run" => stack[i].c
          /\ stack[i].k = "get" =>
                /\ i > 1
                /\ stack[i - 1].k \in {"run", "ctor", "computed"}
                /\ stack[i - 1].w = stack[i].w

\* C32 as claimed: ..., and after every run() the cached value is the value
\* that run() evaluated.
C32_RunStoresEvaluated ==
    /\ RunFiresIff
    /\ ev.t = "returned" => watchers[ev.w].value = ev.v

\* C32, amended: run() on an active Watcher invokes the callback, with the
\* value evaluated and the value cached before, if and only if the two are
\* not ===, or the value is an object or array, or the Watcher is deep; the
\* cached value is the value evaluated when the callback is invoked and
\* when run() returns without invoking it, and after every run() it is the
\* value of the latest evaluation of the Watcher; run() on an inactive
\* Watcher evaluates nothing.
C32_RunStoresLatest ==
    /\ RunFiresIff
    /\ ev.t = "returned" =>
          /\ watchers[ev.w].value = hist.lastv[ev.w]
          /\ ~ev.c => watchers[ev.w].value = ev.v

\* run() has invoked the callback for an object that is the one cached, and
\* has returned
C32_Witness ==
    /\ ev.t = "returned"
    /\ ev.c
    /\ ev.v = ev.old
    /\ IsObject(ev.v)
    /\ watchers[ev.w].value = ev.v

\* the own Deps of the observed elements of an array, through nested arrays
RECURSIVE ElementDeps(_)
ElementDeps(es) ==
    IF es = <<>> THEN {}
    ELSE LET e == Head(es)
         IN  (IF IsObject(e) /\ heap[e.n].ob THEN {heap[e.n].dep} ELSE {})
             \cup (IF IsObject(e) /\ heap[e.n].arr
                   THEN ElementDeps(heap[e.n].elems) ELSE {})
             \cup ElementDeps(Tail(es))

\* the property a Watcher's expression reads
PropertyRead(w) ==
    IF watchers[w].g = "props.o" THEN <<Props, "o">> ELSE <<Root, "o">>

\* the Deps a read of obj[key] is to subscribe the reader to
ContainerDeps(x) ==
    LET p == heap[x[1]].props[x[2]]
    IN  {p.dep}
        \cup (IF IsObject(p.val) /\ heap[p.val.n].ob
              THEN {heap[p.val.n].dep}
                   \cup (IF heap[p.val.n].arr
                         THEN ElementDeps(heap[p.val.n].elems) ELSE {})
              ELSE {})

\* C33: an evaluation that has read a reactive property holding an observed
\* container has depended on, and its Watcher is subscribed to, the
\* property's Dep, the container's own Dep and, for an array, the own Dep of
\* every observed element, through nested arrays; this for the container the
\* property holds now, whichever it held before.
C33_ReadSubscribesToContainer ==
    ev.t = "got" /\ ~ev.err =>
        /\ ContainerDeps(PropertyRead(ev.w)) \subseteq ev.rd
        /\ \A d \in ContainerDeps(PropertyRead(ev.w)) : InSubs(ev.w, d)

\* C33 for the properties of the data object only
C33_DataReadSubscribes ==
    ev.t = "got" /\ ~ev.err /\ PropertyRead(ev.w)[1] = Root =>
        /\ ContainerDeps(PropertyRead(ev.w)) \subseteq ev.rd
        /\ \A d \in ContainerDeps(PropertyRead(ev.w)) : InSubs(ev.w, d)

\* a step of a notify() that called update() on lazy and queued Watchers only:
\* the write itself up to its first update of a lazy Watcher or its end, or
\* the loop going on from there
NotifyOnly ==
    /\ \/ Idle /\ \E x \in FrameWrites : WriteOf(x, FALSE)
       \/ stack # <<>> /\ Last(stack).k = "notify" /\ ev.t = "dirtied" /\ Resume
    /\ ev'.t \in {"dirtied", "notified"}

\* the subscriber list, at the call, of the notify() the step belongs to
ListNotified == IF ev'.t = "notified" THEN ev'.snap ELSE Last(stack').at

\* the step has neither queued, nor marked dirty, nor changed Watcher w
Untouched(w) ==
    /\ watchers'[w] = watchers[w]
    /\ w \in SeqSet(queue') <=> w \in SeqSet(queue)
    /\ IdOf(Cur, w) \in has' <=> IdOf(Cur, w) \in has

\* C34, the part on the Dep's list: a notify() leaves every Watcher outside
\* the list of its Dep as it was, and a run() called by a notify() is on a
\* Watcher of that list.
C34_UpdatesOnlyListed ==
    [][/\ NotifyOnly =>
             \A w \in 1..Len(watchers) : w \notin SeqSet(ListNotified) => Untouched(w)
       /\ \A i \in 2..Len(stack') :
             stack'[i].k = "run" /\ stack'[i - 1].k = "notify"
                 => stack'[i].w \in SeqSet(stack'[i - 1].at)]_vars

\* C34 as claimed: a write to p calls update() on the Watchers of p's list
\* only, leaving the others as they were, and every Watcher it updates has
\* read p in its latest evaluation.
C34_WriteUpdatesReadersOnly ==
    [][/\ NotifyOnly =>
             \A w \in 1..Len(watchers) : w \notin SeqSet(ListNotified) => Untouched(w)
       /\ \A i \in 2..Len(stack') :
             stack'[i].k = "run" /\ stack'[i - 1].k = "notify"
                 => stack'[i].w \in SeqSet(stack'[i - 1].at)
       /\ ev'.t = "notified" => ev'.stale = {}]_vars

\* C35: between the handlers' steps no traverse() is in progress (a traverse
\* runs inside the step that ends its get()), and seenObjects is empty; a
\* traverse that has ended without an exception has read the entries of the
\* container it was called on.
C35_SeenEmptyBetweenTraverses ==
    /\ seenObjects = {}
    /\ ev.t = "got" /\ watchers[ev.w].deep /\ ~ev.over /\ ~ev.err /\ IsObject(ev.v)
           => ev.v.n \in SeqSet(ev.vis)

\* C35 for the traverses that return
C35_SeenEmptyAfterReturn ==
    ev.t = "got" /\ watchers[ev.w].deep /\ ~ev.over /\ ~ev.err /\ IsObject(ev.v)
        /\ ev.ts = <<>>
        => seenObjects = {}

\* flag ? a : b over the data as it is
FlagAB ==
    IF Truthy(heap[Root].props["flag"].val) THEN heap[Root].props["a"].val
    ELSE heap[Root].props["b"].val

\* C36: the construction of a lazy Watcher evaluates nothing and leaves it
\* dirty, without value and subscribed to nothing; an evaluation of a lazy
\* Watcher starts only when it is dirty; evaluate() calls get() once, stores
\* its value and clears dirty; dirty is set again only by update(), that is
\* by a write to a dependency; so a read of the computed property while the
\* Watcher is clean evaluates nothing, changes no Watcher and no list, and a
\* Watcher that has read vm.c has got the cached value.
C36_LazyEvaluatesOncePerWrite ==
    [][/\ \A w \in 1..Len(watchers') :
             w > Len(watchers) /\ watchers'[w].lazy =>
                 /\ watchers'[w].dirty
                 /\ watchers'[w].value = Undef
                 /\ watchers'[w].deps = <<>>
                 /\ \A d \in 1..Len(subs') : w \notin SeqSet(subs'[d])
                 /\ ev'.t = "none"
       /\ ev'.t = "got" /\ watchers'[ev'.w].lazy =>
             /\ ev'.w \in 1..Len(watchers)
             /\ watchers[ev'.w].dirty
       /\ ev'.t = "evaluated" =>
             /\ ev.t = "got" /\ ev.w = ev'.w
             /\ ~watchers'[ev'.w].dirty
             /\ watchers'[ev'.w].value = ev.v
             /\ watchers'[ev'.w].value = FlagAB'
       /\ \A w \in 1..Len(watchers) :
             watchers[w].lazy /\ ~watchers[w].dirty /\ watchers'[w].dirty
                 => ev'.t = "dirtied" /\ ev'.w = w
       /\ Idle /\ TheComputed # 0 /\ ~watchers[TheComputed].dirty /\ ReadComputed
             => UNCHANGED <<watchers, subs, heap>> /\ ev'.t = "none"
       /\ ev'.t = "got" /\ watchers'[ev'.w].g = "c" /\ TheComputed' # 0 /\ ~ev'.err
             => ev'.v = watchers'[TheComputed'].value]_vars

\* evaluate() has returned inside the evaluation of a Watcher that reads
\* vm.c: the computed Watcher is clean and holds flag ? a : b
C36_Witness ==
    /\ ev.t = "evaluated"
    /\ ~watchers[ev.w].dirty
    /\ watchers[ev.w].value = FlagAB
    /\ watchers[ev.w].value.t = "num"
    /\ \E i \in 1..Len(stack) : stack[i].k = "get" /\ watchers[stack[i].w].g = "c"

\* a get() of Watcher w is in progress
Evaluating(w) == \E i \in 1..Len(stack) : stack[i].k = "get" /\ stack[i].w = w

\* C37: an active Watcher that is not being evaluated is in the list of
\* exactly the Deps of its deps, its depIds are the ids of deps, and its
\* newDeps and newDepIds are empty.
C37_ListsReconciled ==
    \A w \in 1..Len(watchers) :
        watchers[w].active /\ ~Evaluating(w) =>
            /\ \A d \in 0..(Len(subs) - 1) :
                  InSubs(w, d) <=> d \in SeqSet(watchers[w].deps)
            /\ watchers[w].depIds = SeqSet(watchers[w].deps)
            /\ watchers[w].newDeps = <<>>
            /\ watchers[w].newDepIds = {}

\* C38: a Watcher whose evaluation has read the computed property c has got
\* flag ? a : b over the data as it is, also a sync Watcher that a write to
\* an input of c re-runs from inside notify(), before or after update() is
\* called on the computed Watcher.
C38_ReadsCurrentComputed ==
    /\ ev.t = "got" /\ ~ev.err /\ TheComputed # 0
    /\ watchers[ev.w].g \in {"c", "a;c"}
    => ev.v = FlagAB

\* C38 for the Watchers that read vm.c only
C38_ReaderOfComputedOnly ==
    /\ ev.t = "got" /\ ~ev.err /\ TheComputed # 0
    /\ watchers[ev.w].g = "c"
    => ev.v = FlagAB

\* the callbacks the flushCallbacks in progress has copied and not invoked yet
CopiesLeft ==
    IF \E i \in 1..Len(stack) : stack[i].k = "drain"
    THEN LET i == CHOOSE j \in 1..Len(stack) : stack[j].k = "drain"
         IN  SubSeq(stack[i].snap, stack[i].i, Len(stack[i].snap))
    ELSE <<>>

\* every callback registered is invoked, copied by the drain in progress and
\* still to be invoked there, or in the callback list, once and in the order
\* of the registrations; a drain invokes only callbacks registered before it
\* started; a non-empty callback list has pending set, and pending is set
\* exactly while one flushCallbacks is handed to the host
C39_RegisteredOnce ==
    /\ hist.reg = hist.ran \o CopiesLeft \o callbacks
    /\ Len(hist.ran) + Len(CopiesLeft) <= hist.mark
    /\ callbacks # <<>> => pending
    /\ pending <=> timers = 1
    /\ timers <= 1
    /\ Cardinality({i \in 1..Len(stack) : stack[i].k = "drain"}) <= 1

\* C39: every callback passed to nextTick is invoked exactly once, in a
\* drain that starts after nextTick has returned: no registration is lost or
\* invoked twice, a non-empty callback list has a drain scheduled, never more
\* than one is scheduled, and the callback first in the list when no handler
\* runs is the first one the next drain has invoked when it ends.
C39_InvokedExactlyOnce ==
    /\ []C39_RegisteredOnce
    /\ \A cb \in TickCallbacks \cup {"flush"} :
          (Idle /\ callbacks # <<>> /\ callbacks[1] = cb)
              ~> (ev.t = "drained" /\ hist.ran # <<>> /\ hist.ran[1] = cb
                  /\ Len(hist.ran) = hist.mark)

\* a drain has ended that invoked two callbacks registered before it started
\* and during which a callback registered a further one, now pending
C39_Witness ==
    /\ ev.t = "drained"
    /\ hist.mark = 2 /\ Len(hist.ran) = 2
    /\ hist.ran[1] = "nextTick(y)"
    /\ callbacks = <<"y">>
    /\ pending /\ timers = 1

\* the callback of SpecTick that throws
Thrower == "nextTick(x);throw"

\* C40: an exception thrown by a callback that nextTick registered is caught
\* by the wrapper around it and reported: it never leaves flushCallbacks, and
\* when it is reported the loop has gone on to the callback registered after
\* the one that threw; every callback the drain has copied is invoked or
\* still to be invoked, and when the drain ends it has invoked all of them in
\* the order of their registration.
C40_ThrowDoesNotEndDrain ==
    /\ exc => stack # <<>>
    /\ Len(hist.ran) + Len(CopiesLeft) = hist.mark
    /\ ev.t = "tick" =>
          /\ ev.err /\ ~exc
          /\ Len(hist.ran) >= 2
          /\ hist.ran[Len(hist.ran) - 1] = Thrower
          /\ Len(stack) >= 2
          /\ stack[Len(stack) - 1].k = "drain"
          /\ IF hist.ran[Len(hist.ran)] = "flush"
             THEN stack[Len(stack)].k = "flush"
             ELSE /\ stack[Len(stack)].k = "script"
                  /\ stack[Len(stack)].code = hist.ran[Len(hist.ran)]
    /\ ev.t = "drained" =>
          /\ ~exc
          /\ hist.ran = SubSeq(hist.reg, 1, hist.mark)

\* a drain has ended whose first callback threw after it had registered a
\* further one, and whose second and third callbacks have run after it
C40_Witness ==
    /\ ev.t = "drained"
    /\ hist.ran = <<Thrower, "nextTick(y)", "x">>
    /\ callbacks = <<"x", "y">>

=============================================================================
